---- MODULE Spec2Model ----
(***************************************************************************)
(* A model of the numerical core of cmt: the radial basis kernels and the  *)
(* LinearRegressionSolver (linearRegressionSolver.h/.cpp), the RBFNode     *)
(* that caches three bucket solvers behind a dirty flag (rbfNode.cpp), and *)
(* the two-bone IK solver of IKRigNode (ikRigNode.cpp).                    *)
(*                                                                         *)
(* Reals are modelled exactly.  A number is an element a + b*sqrt(s) of a  *)
(* real quadratic field, a and b rationals, s a squarefree integer: the    *)
(* column norm and the Frobenius norm of setFeatures are square roots of   *)
(* rationals, and every value derived from them stays in that form.        *)
(* Floating point rounding is not modelled.  exp, log and sqrt of a        *)
(* general argument are kept symbolic (KernelResult).                      *)
(***************************************************************************)
EXTENDS Integers, Sequences, FiniteSets, TLC

(***************************************************************************)
(* Exact rationals <<n, d>>, d > 0, in lowest terms.                       *)
(***************************************************************************)
Abs(i) == IF i < 0 THEN -i ELSE i

RECURSIVE Gcd(_, _)
Gcd(a, b) == IF b = 0 THEN a ELSE Gcd(b, a % b)

Rat(n, d) ==
  LET g == Gcd(Abs(n), Abs(d))
      sg == IF d < 0 THEN -1 ELSE 1
  IN <<sg * (n \div g), sg * (d \div g)>>

RZero == <<0, 1>>
ROne == <<1, 1>>
RInt(i) == <<i, 1>>
RAdd(x, y) ==
  LET g == Gcd(x[2], y[2])
  IN Rat(x[1] * (y[2] \div g) + y[1] * (x[2] \div g), x[2] * (y[2] \div g))
RNeg(x) == <<-x[1], x[2]>>
RSub(x, y) == RAdd(x, RNeg(y))
RMul(x, y) ==
  LET g1 == Gcd(Abs(x[1]), y[2])
      g2 == Gcd(Abs(y[1]), x[2])
  IN <<(x[1] \div g1) * (y[1] \div g2), (x[2] \div g2) * (y[2] \div g1)>>
RInv(x) == Rat(x[2], x[1])
RDiv(x, y) == RMul(x, RInv(y))
RSign(x) == IF x[1] > 0 THEN 1 ELSE IF x[1] < 0 THEN -1 ELSE 0
RLt(x, y) == x[1] * y[2] < y[1] * x[2]
RLe(x, y) == x[1] * y[2] <= y[1] * x[2]

\* The largest c with c*c dividing m (m > 0), searched from c upwards.
RECURSIVE SquarePart(_, _)
SquarePart(m, c) ==
  IF c * c > m THEN 1
  ELSE IF m % (c * c) = 0 THEN c * SquarePart(m \div (c * c), c)
  ELSE SquarePart(m, c + 1)

(***************************************************************************)
(* Numbers a + b*sqrt(s).  s = 1 exactly when b = 0.  A sum or product of  *)
(* two numbers with different radicands is outside the field: no CASE arm  *)
(* matches and TLC stops with an error instead of rounding.                *)
(***************************************************************************)
Num(a, b, s) == IF b = RZero THEN [a |-> a, b |-> RZero, s |-> 1]
                ELSE [a |-> a, b |-> b, s |-> s]
NRat(r) == [a |-> r, b |-> RZero, s |-> 1]
NInt(i) == NRat(RInt(i))
NZero == NInt(0)
NOne == NInt(1)

NAdd(x, y) ==
  CASE x.b = RZero \/ y.b = RZero \/ x.s = y.s ->
    Num(RAdd(x.a, y.a), RAdd(x.b, y.b), IF x.b = RZero THEN y.s ELSE x.s)
NNeg(x) == [a |-> RNeg(x.a), b |-> RNeg(x.b), s |-> x.s]
NSub(x, y) == NAdd(x, NNeg(y))

\* (a1 + b1*sqrt(s)) * (a2 + b2*sqrt(s))
NMulIn(x, y, s) ==
  Num(RAdd(RMul(x.a, y.a), RMul(RMul(x.b, y.b), RInt(s))),
      RAdd(RMul(x.a, y.b), RMul(x.b, y.a)), s)
\* b1*sqrt(s1) * b2*sqrt(s2) = b1*b2*g*sqrt((s1/g)*(s2/g)), g = gcd(s1, s2)
NMulRoots(x, y, g) ==
  Num(RZero, RMul(RMul(x.b, y.b), RInt(g)), (x.s \div g) * (y.s \div g))
NMul(x, y) ==
  CASE x.b = RZero \/ y.b = RZero \/ x.s = y.s ->
         NMulIn(x, y, IF x.b = RZero THEN y.s ELSE x.s)
    [] x.b # RZero /\ y.b # RZero /\ x.s # y.s /\ x.a = RZero /\ y.a = RZero ->
         NMulRoots(x, y, Gcd(x.s, y.s))
NSquare(x) == NMul(x, x)

\* 1/(a + b*sqrt(s)) = (a - b*sqrt(s)) / (a*a - b*b*s); x is not zero.
NInvOver(x, den) == Num(RDiv(x.a, den), RNeg(RDiv(x.b, den)), x.s)
NInv(x) == NInvOver(x, RSub(RMul(x.a, x.a), RMul(RMul(x.b, x.b), RInt(x.s))))
NDiv(x, y) == NMul(x, NInv(y))

NSign(x) ==
  IF RSign(x.b) = 0 THEN RSign(x.a)
  ELSE IF RSign(x.a) = 0 \/ RSign(x.a) = RSign(x.b) THEN RSign(x.b)
  ELSE IF RLt(RMul(RMul(x.b, x.b), RInt(x.s)), RMul(x.a, x.a)) THEN RSign(x.a)
  ELSE RSign(x.b)
NLt(x, y) == NSign(NSub(x, y)) < 0
NLe(x, y) == NSign(NSub(x, y)) <= 0
NAbs(x) == IF NSign(x) < 0 THEN NNeg(x) ELSE x

\* sqrt of a positive rational n/d = (c/d)*sqrt(s) for n*d = c*c*s
NSqrtOf(m, d, c) ==
  IF m = c * c THEN NRat(Rat(c, d)) ELSE Num(RZero, Rat(c, d), m \div (c * c))
NSqrt(x) ==
  CASE x.b = RZero /\ x.a[1] >= 0 ->
    IF x.a[1] = 0 THEN NZero
    ELSE NSqrtOf(x.a[1] * x.a[2], x.a[2], SquarePart(x.a[1] * x.a[2], 2))

\* sqrt(2)/2, sqrt(3)/2 and 1/2
HalfSqrt2 == [a |-> <<0, 1>>, b |-> <<1, 2>>, s |-> 2]
HalfSqrt3 == [a |-> <<0, 1>>, b |-> <<1, 2>>, s |-> 3]
NHalf == NRat(<<1, 2>>)

(***************************************************************************)
(* The radial basis kernels of linearRegressionSolver.h.  A kernel result  *)
(* is [fn, arg, finite, r]: the value is arg for fn = "val", exp(arg) for  *)
(* "exp", arg*arg*log(arg) for "v2log", sqrt(arg) for "sqrt" and           *)
(* 1/sqrt(arg) for "rsqrt"; finite is FALSE when IEEE arithmetic yields an *)
(* infinity or a NaN (a division by zero).  r is the radius the kernel     *)
(* object holds after its constructor ran.  Each kernel is its constructor *)
(* (..Radius) followed by its operator() (..Call).                         *)
(***************************************************************************)
RadiusFloor == NRat(<<1, 1000>>)
kFalloff == NRat(<<2, 5>>)

KernelResult(fn, arg, finite, r) == [fn |-> fn, arg |-> arg, finite |-> finite, r |-> r]

\* r = radius > 0.0 ? radius : 0.001
FlooredRadius(radius) == IF NSign(radius) > 0 THEN radius ELSE RadiusFloor

GaussianRadius(radius) == NMul(FlooredRadius(radius), kFalloff)
\* exp(-(x * x) / (2.0 * r * r)), as exp(-((x / r) * (x / r)) / 2)
GaussianCall(r, x) == KernelResult("exp", NNeg(NMul(NSquare(NDiv(x, r)), NHalf)), TRUE, r)
Gaussian(radius, x) == GaussianCall(GaussianRadius(radius), x)

\* v > 0.0 ? v * v * log(v) : v, for v = x / r
ThinPlateOf(v, r) ==
  IF NSign(v) > 0 THEN KernelResult("v2log", v, TRUE, r) ELSE KernelResult("val", v, TRUE, r)
ThinPlateCall(r, x) == ThinPlateOf(NDiv(x, r), r)
ThinPlate(radius, x) == ThinPlateCall(FlooredRadius(radius), x)

\* sqrt((x * x) + (r * r)), r the radius as given
MultiQuadraticBiharmonic(radius, x) ==
  KernelResult("sqrt", NAdd(NSquare(x), NSquare(radius)), TRUE, radius)

\* 1.0 / sqrt((x * x) + (r * r)), r the radius as given
InverseOfSqrt(q, r) == KernelResult("rsqrt", q, q # NZero, r)
InverseMultiQuadraticBiharmonic(radius, x) ==
  InverseOfSqrt(NAdd(NSquare(x), NSquare(radius)), radius)

\* pow(1.0 - v, 4) without the cut at 0
WendlandFirstNoCutoff(w) == NSquare(NSquare(w))
\* first = (1.0 - v > 0.0) ? pow(1.0 - v, 4) : 0.0, for w = 1.0 - v
WendlandFirst(w) == IF NSign(w) > 0 THEN NSquare(NSquare(w)) ELSE NZero
\* first * second, second = 4.0 * v + 1.0, for v = x / r
WendlandOf(v, r) ==
  KernelResult("val", NMul(WendlandFirst(NSub(NOne, v)), NAdd(NMul(NInt(4), v), NOne)), TRUE, r)
BeckertWendlandC2BasisCall(r, x) == WendlandOf(NDiv(x, r), r)
BeckertWendlandC2Basis(radius, x) == BeckertWendlandC2BasisCall(FlooredRadius(radius), x)

\* applyRbf on one entry x of the matrix.
applyRbf(x, rbf, radius) ==
  CASE rbf = 0 -> KernelResult("val", x, TRUE, radius)
    [] rbf = 1 -> Gaussian(radius, x)
    [] rbf = 2 -> ThinPlate(radius, x)
    [] rbf = 3 -> MultiQuadraticBiharmonic(radius, x)
    [] rbf = 4 -> InverseMultiQuadraticBiharmonic(radius, x)
    [] rbf = 5 -> BeckertWendlandC2Basis(radius, x)
    [] OTHER -> KernelResult("val", x, TRUE, radius)

Kernels == 0..5
RadiusKernels == 1..5

(***************************************************************************)
(* Dense matrices (Eigen::MatrixXd) as [r, c, v]: r rows, c columns and    *)
(* v the sequence of rows.  A default constructed matrix is 0 x 0.         *)
(***************************************************************************)
\* e, after the values of steps were computed one after the other, as the
\* statements of the code are
After(steps, e) == CASE steps = steps -> e

RECURSIVE NSum(_)
\* the sum of a sequence of numbers
NSum(seq) == IF Len(seq) = 0 THEN NZero ELSE NAdd(Head(seq), NSum(Tail(seq)))

EmptyMat == [r |-> 0, c |-> 0, v |-> <<>>]
MatZero(r, c) == [r |-> r, c |-> c, v |-> [i \in 1..r |-> [j \in 1..c |-> NZero]]]
MatIdentity(n) ==
  [r |-> n, c |-> n, v |-> [i \in 1..n |-> [j \in 1..n |-> IF i = j THEN NOne ELSE NZero]]]
MatOfRows(rows, c) == [r |-> Len(rows), c |-> c, v |-> rows]
MatTranspose(m) ==
  After(<<m>>, [r |-> m.c, c |-> m.r, v |-> [i \in 1..m.c |-> [j \in 1..m.r |-> m.v[j][i]]]])
MatMul(a, b) ==
  After(<<a, b>>,
        [r |-> a.r, c |-> b.c,
         v |-> [i \in 1..a.r |->
                  [j \in 1..b.c |-> NSum([k \in 1..a.c |-> NMul(a.v[i][k], b.v[k][j])])]]])
MatAdd(a, b) ==
  After(<<a, b>>,
        [r |-> a.r, c |-> a.c,
         v |-> [i \in 1..a.r |-> [j \in 1..a.c |-> NAdd(a.v[i][j], b.v[i][j])]]])
MatScale(a, x) ==
  After(<<a, x>>,
        [r |-> a.r, c |-> a.c, v |-> [i \in 1..a.r |-> [j \in 1..a.c |-> NMul(a.v[i][j], x)]]])
\* Eigen's norm(): the Frobenius norm
MatNorm(a) ==
  After(<<a>>, NSqrt(NSum([i \in 1..a.r |-> NSum([j \in 1..a.c |-> NSquare(a.v[i][j])])])))

(***************************************************************************)
(* pseudoInverse: the Moore-Penrose inverse.  The source takes it from the *)
(* SVD, dropping the singular values below epsilon*max(rows,cols)*sigma_1; *)
(* in exact arithmetic those are the singular values equal to 0.  The same *)
(* matrix is computed here by elimination: with A = C*F a full rank        *)
(* factorisation (C the pivot columns of A, F the non-zero rows of its     *)
(* reduced row echelon form),                                              *)
(*   A^+ = F^T * (F*F^T)^-1 * (C^T*C)^-1 * C^T.                            *)
(***************************************************************************)
RowScale(row, x) == [j \in 1..Len(row) |-> NMul(row[j], x)]
RowSubMul(row, other, x) == [j \in 1..Len(row) |-> NSub(row[j], NMul(other[j], x))]

\* the rows from prow on with a non-zero entry in column col
PivotCandidates(rows, col, prow) == {p \in prow..Len(rows) : rows[p][col] # NZero}
\* the first of them
PivotRow(rows, col, prow) ==
  CHOOSE q \in PivotCandidates(rows, col, prow) :
    \A o \in PivotCandidates(rows, col, prow) : q <= o
\* row p, scaled to a leading 1, swapped into place prow
SwapScaled(rows, col, prow, p) ==
  After(<<rows>>, [rows EXCEPT ![p] = rows[prow],
                               ![prow] = RowScale(rows[p], NInv(rows[p][col]))])
\* column col cleared in every row but prow
ClearColumn(rows, col, prow) ==
  After(<<rows>>, [i \in 1..Len(rows) |->
                     IF i = prow THEN rows[i]
                     ELSE RowSubMul(rows[i], rows[prow], rows[i][col])])
\* one elimination step
RrefStep(rows, col, prow) ==
  ClearColumn(SwapScaled(rows, col, prow, PivotRow(rows, col, prow)), col, prow)

RECURSIVE RrefFrom(_, _, _, _, _)
\* Gauss-Jordan elimination of the rows from column col on, prow the next
\* pivot row; the result is [rows, piv], piv the pivot columns in order.
RrefFrom(rows, ncols, col, prow, piv) ==
  IF col > ncols \/ prow > Len(rows) THEN [rows |-> rows, piv |-> piv]
  ELSE IF PivotCandidates(rows, col, prow) = {}
       THEN RrefFrom(rows, ncols, col + 1, prow, piv)
       ELSE RrefFrom(RrefStep(rows, col, prow), ncols, col + 1, prow + 1, Append(piv, col))

Rref(a) == After(<<a>>, RrefFrom(a.v, a.c, 1, 1, <<>>))

\* [a | I]
Augmented(a) ==
  [i \in 1..a.r |-> [j \in 1..(2 * a.c) |->
     IF j <= a.c THEN a.v[i][j] ELSE IF j - a.c = i THEN NOne ELSE NZero]]
\* the right half of the reduced rows
RightHalf(rows, n) == [r |-> n, c |-> n, v |-> [i \in 1..n |-> [j \in 1..n |-> rows[i][n + j]]]]
\* the inverse of a nonsingular n x n matrix: the right half of rref([a | I])
MatInverse(a) ==
  After(<<a>>, RightHalf(RrefFrom(Augmented(a), a.c, 1, 1, <<>>).rows, a.r))

\* C: the pivot columns of a
PivotColumns(a, piv) ==
  [r |-> a.r, c |-> Len(piv), v |-> [i \in 1..a.r |-> [j \in 1..Len(piv) |-> a.v[i][piv[j]]]]]
\* F: the first k rows of the reduced row echelon form
LeadingRows(rows, k, c) == [r |-> k, c |-> c, v |-> [i \in 1..k |-> rows[i]]]
\* F^T * (F*F^T)^-1
RightInverse(f, ft) == MatMul(ft, MatInverse(MatMul(f, ft)))
\* (C^T*C)^-1 * C^T
LeftInverse(c, ct) == MatMul(MatInverse(MatMul(ct, c)), ct)
FullRankInverse(a, red) ==
  IF Len(red.piv) = 0 THEN MatZero(a.c, a.r)
  ELSE MatMul(RightInverse(LeadingRows(red.rows, Len(red.piv), a.c),
                           MatTranspose(LeadingRows(red.rows, Len(red.piv), a.c))),
              LeftInverse(PivotColumns(a, red.piv), MatTranspose(PivotColumns(a, red.piv))))
pseudoInverse(a) == FullRankInverse(a, Rref(a))

(***************************************************************************)
(* Quaternions <<x, y, z, w>> (MQuaternion) and the rotation metric of     *)
(* linearRegressionSolver.cpp.                                             *)
(***************************************************************************)
Quat(x, y, z, w) == <<x, y, z, w>>
QuatIdentity == Quat(NZero, NZero, NZero, NOne)

\* MQuaternion::operator*: Maya's a * b is the rotation a followed by b, the
\* Hamilton product b . a.  Component c of the product is the sum of the
\* four terms sign * b[i] * a[j], <<i, j, sign>> from row c of the table.
QuatMulTerms ==
  << << <<4, 1, 1>>, <<1, 4, 1>>, <<2, 3, 1>>, <<3, 2, -1>> >>,
     << <<4, 2, 1>>, <<2, 4, 1>>, <<3, 1, 1>>, <<1, 3, -1>> >>,
     << <<4, 3, 1>>, <<3, 4, 1>>, <<1, 2, 1>>, <<2, 1, -1>> >>,
     << <<4, 4, 1>>, <<1, 1, -1>>, <<2, 2, -1>>, <<3, 3, -1>> >> >>
QuatMul(a, b) ==
  After(<<a, b>>,
        [c \in 1..4 |->
           NSum([t \in 1..4 |->
                   NMul(NInt(QuatMulTerms[c][t][3]),
                        NMul(b[QuatMulTerms[c][t][1]], a[QuatMulTerms[c][t][2]]))])])
QuatScale(q, x) == After(<<q, x>>, [k \in 1..4 |-> NMul(q[k], x)])
QuatNormSq(q) == NSum([k \in 1..4 |-> NSquare(q[k])])
QuatConjugate(q) == Quat(NNeg(q[1]), NNeg(q[2]), NNeg(q[3]), q[4])
\* MQuaternion::inverse: the conjugate over the squared length
QuatInverse(q) == QuatScale(QuatConjugate(q), NInv(QuatNormSq(q)))
\* MQuaternion::normalizeIt, for a quaternion of non-zero length
QuatNormalize(q) == QuatScale(q, NInv(NSqrt(QuatNormSq(q))))

\* clamp(x, lo, hi)
NClamp(x, lo, hi) == IF NLt(x, lo) THEN lo ELSE IF NLt(hi, x) THEN hi ELSE x
quaternionDot(q1, q2) ==
  NClamp(NSum([k \in 1..4 |-> NMul(q1[k], q2[k])]), NInt(-1), NOne)

\* acos(c)/pi at the cosines of the multiples of 30 and 45 degrees; the model
\* draws its rotations so that no other cosine arises.
AcosOverPi(c) ==
  CASE c = NOne -> NZero
    [] c = HalfSqrt3 -> NRat(<<1, 6>>)
    [] c = HalfSqrt2 -> NRat(<<1, 4>>)
    [] c = NHalf -> NRat(<<1, 3>>)
    [] c = NZero -> NRat(<<1, 2>>)
    [] c = NNeg(NHalf) -> NRat(<<2, 3>>)
    [] c = NNeg(HalfSqrt2) -> NRat(<<3, 4>>)
    [] c = NNeg(HalfSqrt3) -> NRat(<<5, 6>>)
    [] c = NInt(-1) -> NOne

\* a distance that tells q from -q: acos(dot) / M_PI
DistanceOfDotSigned(dot) == AcosOverPi(dot)
\* acos(2.0 * dot * dot - 1.0) / M_PI
DistanceOfDot(dot) == AcosOverPi(NSub(NMul(NInt(2), NSquare(dot)), NOne))
quaternionDistance(q1, q2) == DistanceOfDot(quaternionDot(q1, q2))

\* a swing taken on the other side of q: q * twist.inverse()
SwingOfRight(q, twist) == <<QuatMul(q, QuatInverse(twist)), twist>>
\* decomposeSwingTwist about the fixed X axis: <<swing, twist>>
SwingOf(q, twist) == <<QuatMul(QuatInverse(twist), q), twist>>
decomposeSwingTwist(q) == SwingOf(q, QuatNormalize(Quat(q[1], NZero, NZero, q[4])))

\* swingTwistDistance: <<swingDistance, twistDistance>>, d the decomposed
\* pair of rotations
PartDistances(d) ==
  After(<<d>>, [part \in 1..2 |-> quaternionDistance(d[1][part], d[2][part])])
swingTwistDistance(q1, q2) ==
  PartDistances([k \in 1..2 |-> decomposeSwingTwist(<<q1, q2>>[k])])

(***************************************************************************)
(* LinearRegressionSolver.  NaN stands for the IEEE NaN that 0.0/0.0       *)
(* yields; a matrix that holds one is not carried through the arithmetic:  *)
(* everything computed from it is NaN.                                     *)
(***************************************************************************)
NaN == [a |-> RZero, b |-> RZero, s |-> 0]
MatNaN(r, c) == [r |-> r, c |-> c, v |-> [i \in 1..r |-> [j \in 1..c |-> NaN]]]
MatHasNaN(m) == \E i \in 1..m.r : \E j \in 1..m.c : m.v[i][j] = NaN

Swing == 0
Twist == 1
SwingTwist == 2

\* applyRbf's value on one entry as a number: the kernels without a
\* transcendental function (linear, Wendland C2), and the thin plate at
\* v = 1, where v * v * log(v) is 0, and at v <= 0, where it is v.
ValueOf(k) ==
  CASE ~k.finite -> NaN
    [] k.finite /\ k.fn = "val" -> k.arg
    [] k.finite /\ k.fn = "v2log" /\ k.arg = NOne -> NZero
RbfValue(x, rbf, radius) == ValueOf(applyRbf(x, rbf, radius))

\* LinearRegressionSolver::LinearRegressionSolver: the constructor leaves
\* distanceNorm_, rbf_, radius_ and solverSpace_ uninitialised; Unset and -1
\* stand for their indeterminate values, which no code reads before
\* setFeatures assigns them.
Unset == [a |-> RZero, b |-> RZero, s |-> -1]
NewSolver ==
  [distanceNorm_ |-> Unset, rbf_ |-> -1, radius_ |-> Unset,
   solverSpace_ |-> -1, sampleRadius_ |-> <<>>, featureNorms_ |-> <<>>,
   featureMatrix_ |-> EmptyMat, featureQuatMatrix_ |-> <<>>,
   outputScalarMatrix_ |-> EmptyMat, outputQuats_ |-> <<>>, theta_ |-> EmptyMat]

\* int sampleCount = featureMatrix_.rows() ? featureMatrix_.rows() : featureQuatMatrix_.size();
SampleCount(solver) ==
  IF solver.featureMatrix_.r # 0 THEN solver.featureMatrix_.r
  ELSE Len(solver.featureQuatMatrix_)

\* int valueCols = inputCount ? sampleCount : 0;
ValueCols(sampleCount, inputCount) == IF inputCount # 0 THEN sampleCount ELSE 0
\* int cols = valueCols + sampleCount * 2 * inputQuatCount;
TrainCols(sampleCount, inputCount, inputQuatCount) ==
  ValueCols(sampleCount, inputCount) + sampleCount * 2 * inputQuatCount
\* the columns (0-based) setFeatures gives the swing and the twist distance of
\* rotation slot i (0-based) against sample s2 (0-based):
\* m.block(0, valueCols + rd.cols() * quatIndex, ..) = rd, rd(s1, s2 * 2 [+ 1])
TrainSwingCol(sampleCount, inputCount, i, s2) ==
  ValueCols(sampleCount, inputCount) + (sampleCount * 2) * i + s2 * 2
TrainTwistCol(sampleCount, inputCount, i, s2) ==
  TrainSwingCol(sampleCount, inputCount, i, s2) + 1

\* no mask: both distances kept in every solver space
Unmasked(d, space) == d
\* the solver-space mask on <<swingDistance, twistDistance>>
Masked(d, space) ==
  IF space = Swing THEN <<d[1], NZero>>
  ELSE IF space = Twist THEN <<NZero, d[2]>>
  ELSE <<d[1], d[2]>>
\* swingTwistDistance followed by the solver-space mask
MaskedDistance(q1, q2, space) == Masked(swingTwistDistance(q1, q2), space)

\* a guard that lets one sample through
FewSamplesNone(sampleCount) == sampleCount <= 0
\* if (sampleCount <= 1): the guard of setFeatures and of solve
FewSamples(sampleCount) == sampleCount <= 1

\* int inputQuatCount = featureQuatMatrix.size() ? featureQuatMatrix_[0].size() : 0;
InputQuatCount(solver) ==
  IF Len(solver.featureQuatMatrix_) # 0 THEN Len(solver.featureQuatMatrix_[1]) ELSE 0

\* featureNorms_[i] = featureMatrix_.col(i).norm()
ColumnNorms(m) == [j \in 1..m.c |-> NSqrt(NSum([i \in 1..m.r |-> NSquare(m.v[i][j])]))]
\* x /= norm when the norm is not 0
Normalized(x, norm) == IF norm # NZero THEN NDiv(x, norm) ELSE x
ScaleColumns(m, norms) ==
  After(<<norms>>,
        [r |-> m.r, c |-> m.c,
         v |-> [i \in 1..m.r |-> [j \in 1..m.c |-> Normalized(m.v[i][j], norms[j])]]])
\* the column norms and the normalised feature columns
NormalizeFeatures(s) ==
  IF s.featureMatrix_.c = 0 THEN s
  ELSE [s EXCEPT !.featureNorms_ = ColumnNorms(s.featureMatrix_),
                 !.featureMatrix_ = ScaleColumns(s.featureMatrix_, ColumnNorms(s.featureMatrix_))]

\* (a - b).norm() for two rows
RowDistance(a, b) == NSqrt(NSum([k \in 1..Len(a) |-> NSquare(NSub(a[k], b[k]))]))
\* m.col(i) = (featureMatrix_.rowwise() - featureMatrix_.row(i)).rowwise().norm()
RowDistances(m) ==
  [r |-> m.r, c |-> m.r,
   v |-> [j \in 1..m.r |-> [i \in 1..m.r |-> RowDistance(m.v[j], m.v[i])]]]
\* distanceNorm_ = m.norm()
MeasureDistances(s) ==
  After(<<s>>,
        IF s.featureMatrix_.c = 0 THEN s
        ELSE [s EXCEPT !.distanceNorm_ = MatNorm(RowDistances(s.featureMatrix_))])

\* the swing and twist distances of sample s1 to every sample, in every slot
SampleDistances(fq, s1, space) ==
  UNION {{MaskedDistance(fq[s1][i], fq[s2][i], space)[part] : part \in 1..2} :
           s2 \in 1..Len(fq), i \in 1..Len(fq[1])}
\* the least of 1 and the distances above 0.000001
LeastRadius(distances) ==
  CHOOSE r \in {NOne} \cup {d \in distances : NLt(NRat(<<1, 1000000>>), d)} :
    \A o \in {NOne} \cup {d \in distances : NLt(NRat(<<1, 1000000>>), d)} : NLe(r, o)
\* sampleRadius_[s1] once the loops over s2 and i are done.  It starts at 1 and
\* is lowered to every swing or twist distance of sample s1 that is above
\* 0.000001 and below it, so it ends as the least of 1 and those distances.
SampleRadiusOf(fq, s1, space) == LeastRadius(SampleDistances(fq, s1, space))
MeasureRotations(s) ==
  After(<<s>>,
        IF InputQuatCount(s) = 0 THEN s
        ELSE [s EXCEPT !.sampleRadius_ =
                [s1 \in 1..SampleCount(s) |->
                   SampleRadiusOf(s.featureQuatMatrix_, s1, s.solverSpace_)]])

\* Entry (row, col) of m before applyRbf: the normalised distance of the
\* scalar features of samples row and col, or the masked rotation distance
\* mQuat[i](row, s2 * 2 [+ 1]) for the slot i and the sample s2 of the column.
TrainDistance(s, row, col) ==
  IF col <= ValueCols(SampleCount(s), s.featureMatrix_.c)
  THEN NDiv(RowDistance(s.featureMatrix_.v[row], s.featureMatrix_.v[col]), s.distanceNorm_)
  ELSE MaskedDistance(
         s.featureQuatMatrix_[row]
           [((col - 1 - ValueCols(SampleCount(s), s.featureMatrix_.c))
               \div (SampleCount(s) * 2)) + 1],
         s.featureQuatMatrix_
           [(((col - 1 - ValueCols(SampleCount(s), s.featureMatrix_.c))
                % (SampleCount(s) * 2)) \div 2) + 1]
           [((col - 1 - ValueCols(SampleCount(s), s.featureMatrix_.c))
               \div (SampleCount(s) * 2)) + 1],
         s.solverSpace_)[((col - 1 - ValueCols(SampleCount(s), s.featureMatrix_.c)) % 2) + 1]
\* the radius applyRbf gets for the column: radius_ on the scalar block,
\* sampleRadius_[s2] * radius_ on the rotation block of sample s2
TrainRadius(s, col) ==
  IF col <= ValueCols(SampleCount(s), s.featureMatrix_.c) THEN s.radius_
  ELSE NMul(s.sampleRadius_[(((col - 1 - ValueCols(SampleCount(s), s.featureMatrix_.c))
                                 % (SampleCount(s) * 2)) \div 2) + 1],
            s.radius_)
\* m /= distanceNorm_ divides 0 by 0 when all samples have the same features
TrainEntry(s, row, col) ==
  IF col <= ValueCols(SampleCount(s), s.featureMatrix_.c) /\ s.distanceNorm_ = NZero THEN NaN
  ELSE RbfValue(TrainDistance(s, row, col), s.rbf_, TrainRadius(s, col))
TrainMatrix(s) ==
  [r |-> SampleCount(s),
   c |-> TrainCols(SampleCount(s), s.featureMatrix_.c, InputQuatCount(s)),
   v |-> [row \in 1..SampleCount(s) |->
            [col \in 1..TrainCols(SampleCount(s), s.featureMatrix_.c, InputQuatCount(s)) |->
               TrainEntry(s, row, col)]]]

\* MatrixXd mat = pseudoInverse(tm * m + r) * tm
ThetaMat(m, tm, r) == MatMul(pseudoInverse(MatAdd(MatMul(tm, m), r)), tm)
\* theta_ = (mat * outputMatrix).transpose(); a NaN in m makes every entry
\* of theta_ a NaN
ThetaOf(m, regularization) ==
  After(<<m>>,
        IF MatHasNaN(m) THEN MatNaN(m.r, m.c)
        ELSE MatTranspose(MatMul(ThetaMat(m, MatTranspose(m),
                                          MatScale(MatIdentity(m.c), regularization)),
                                 MatIdentity(m.r))))
\* a regression against the sample outputs instead of the identity
TrainOnOutputs(s, regularization) ==
  After(<<s>>,
        [s EXCEPT !.theta_ =
           IF s.outputScalarMatrix_.r # SampleCount(s) THEN ThetaOf(TrainMatrix(s), regularization)
           ELSE MatTranspose(MatMul(MatTranspose(ThetaOf(TrainMatrix(s), regularization)),
                                    s.outputScalarMatrix_))])
Train(s, regularization) ==
  After(<<s>>, [s EXCEPT !.theta_ = ThetaOf(TrainMatrix(s), regularization)])

\* the members setFeatures assigns first
StoreFeatures(prev, featureMatrix, featureQuatMatrix, outputScalarMatrix, outputQuats, rbf, radius, space) ==
  [prev EXCEPT !.featureMatrix_ = featureMatrix,
               !.featureQuatMatrix_ = featureQuatMatrix,
               !.outputScalarMatrix_ = outputScalarMatrix,
               !.outputQuats_ = outputQuats,
               !.rbf_ = rbf, !.radius_ = radius, !.solverSpace_ = space]
BuildFeatures(s, regularization) ==
  IF FewSamples(SampleCount(s)) THEN [s EXCEPT !.theta_ = EmptyMat]
  ELSE Train(MeasureRotations(MeasureDistances(NormalizeFeatures(s))), regularization)
\* LinearRegressionSolver::setFeatures on the solver prev
setFeatures(prev, featureMatrix, featureQuatMatrix, outputScalarMatrix, outputQuats, rbf, radius, regularization, space) ==
  BuildFeatures(StoreFeatures(prev, featureMatrix, featureQuatMatrix, outputScalarMatrix,
                              outputQuats, rbf, radius, space), regularization)

\* The passes of solve's loops over i, s1 and c, numbered from 0 in the order
\* they run: pass p stores the swing distance at idx and the twist distance
\* at idx + 1, and idx starts at valueCols and grows by 2 a pass.
SolvePassCount(sampleCount, inputQuatCount) == inputQuatCount * sampleCount * inputQuatCount
SolvePassSlot(sampleCount, inputQuatCount, p) == p \div (sampleCount * inputQuatCount)
SolvePassSample(sampleCount, inputQuatCount, p) == (p \div inputQuatCount) % sampleCount
SolvePassColumn(sampleCount, inputQuatCount, p) == p % inputQuatCount
SolveSwingIdx(sampleCount, inputCount, p) == ValueCols(sampleCount, inputCount) + 2 * p
SolveTwistIdx(sampleCount, inputCount, p) == SolveSwingIdx(sampleCount, inputCount, p) + 1

\* inputs[i] /= featureNorms_[i] for the non-zero norms
ScaledInputs(solver, inputValues) ==
  [i \in 1..Len(inputValues) |-> Normalized(inputValues[i], solver.featureNorms_[i])]
\* the radius of applyRbf(inputDistance.segment(startIdx, ..), rbf_,
\* sampleRadius_[s1]) for the pass p
QueryRadius(solver, p) ==
  solver.sampleRadius_[SolvePassSample(SampleCount(solver), InputQuatCount(solver), p) + 1]
\* what pass p stores at inputDistance[idx] (part 1) and [idx + 1] (part 2)
\* before applyRbf: the masked swing and twist distances of the query
\* rotation of slot i to the rotation c of sample s1
QueryDistance(solver, inputQuats, p, part) ==
  MaskedDistance(
    inputQuats[SolvePassSlot(SampleCount(solver), InputQuatCount(solver), p) + 1],
    solver.featureQuatMatrix_
      [SolvePassSample(SampleCount(solver), InputQuatCount(solver), p) + 1]
      [SolvePassColumn(SampleCount(solver), InputQuatCount(solver), p) + 1],
    solver.solverSpace_)[part]
\* what pass p leaves at inputDistance[idx] (part 1) and [idx + 1] (part 2)
\* after applyRbf on its segment, with the radius sampleRadius_[s1]
QueryQuatEntry(solver, inputQuats, p, part) ==
  RbfValue(QueryDistance(solver, inputQuats, p, part), solver.rbf_, QueryRadius(solver, p))
\* inputDistance[col - 1] when the loops are done
QueryEntry(solver, inputs, inputQuats, col) ==
  IF col <= ValueCols(SampleCount(solver), Len(inputs))
  THEN RbfValue(NDiv(RowDistance(solver.featureMatrix_.v[col], inputs), solver.distanceNorm_),
                solver.rbf_, solver.radius_)
  ELSE QueryQuatEntry(solver, inputQuats,
                      (col - 1 - ValueCols(SampleCount(solver), Len(inputs))) \div 2,
                      ((col - 1 - ValueCols(SampleCount(solver), Len(inputs))) % 2) + 1)
\* VectorXd inputDistance = VectorXd::Zero(theta_.cols()), then filled
InputDistance(solver, inputs, inputQuats) ==
  After(<<inputs>>,
        [col \in 1..solver.theta_.c |-> QueryEntry(solver, inputs, inputQuats, col)])
\* VectorXd output = theta_ * inputDistance
Weights(theta, inputDistance) ==
  After(<<inputDistance>>,
        [s \in 1..theta.r |->
           NSum([k \in 1..theta.c |-> NMul(theta.v[s][k], inputDistance[k])])])
\* outputs[i] = output.dot(outputScalarMatrix_.col(i))
Outputs(output, outputScalarMatrix) ==
  [i \in 1..outputScalarMatrix.c |->
     NSum([s \in 1..Len(output) |-> NMul(output[s], outputScalarMatrix.v[s][i])])]
\* a pass stored past the end of inputDistance
OutOfRange(sampleCount, inputCount, passes, width) ==
  passes > 0 /\ SolveTwistIdx(sampleCount, inputCount, passes - 1) >= width
SolveResult(solver, output, inputCount) ==
  After(<<output>>,
        [weights |-> output,
         outputs |-> Outputs(output, solver.outputScalarMatrix_),
         outputQuats |-> [r |-> 4, c |-> Len(solver.outputQuats_)],
         outOfRange |-> OutOfRange(SampleCount(solver), inputCount,
                                   SolvePassCount(SampleCount(solver), InputQuatCount(solver)),
                                   solver.theta_.c)])
\* LinearRegressionSolver::solve.  outputs and outputQuats are the caller's
\* objects, passed by reference.  weights holds theta_ * inputDistance before
\* output.normalize(); the averaged quaternions are kept as the shape of the
\* matrix solve resizes.  outOfRange tells that a pass wrote past the end of
\* inputDistance.  A NaN in theta_ makes every weight a NaN.
solve(solver, inputValues, inputQuats, outputs, outputQuats) ==
  IF FewSamples(SampleCount(solver))
  THEN [weights |-> <<>>, outputs |-> outputs, outputQuats |-> outputQuats,
        outOfRange |-> FALSE]
  ELSE SolveResult(solver,
                   IF MatHasNaN(solver.theta_) THEN [s \in 1..solver.theta_.r |-> NaN]
                   ELSE Weights(solver.theta_,
                                InputDistance(solver, ScaledInputs(solver, inputValues),
                                              inputQuats)),
                   Len(inputValues))

(***************************************************************************)
(* State.  Each component of the plug-in is checked by a specification of   *)
(* its own; the variables of the other components rest at "idle".          *)
(***************************************************************************)
VARIABLES
  kernelIn,    \* the arguments of one applyRbf call: [rbf, radius, x]
  kernelOut,   \* what the kernel returned, NoResult before the call
  setup,       \* the training data and parameters a solver is given
  solver,      \* a LinearRegressionSolver
  solveOut,    \* what the last solve returned, "none" before one
  loop,        \* the counters of solve's loop over the rotation inputs
  node,        \* an RBFNode with its attribute values
  ik,          \* one twoBoneIk / calculateTwoBoneIk call
  quat,        \* one call of a quaternion function with its arguments
  rig,         \* an IKRigNode over its evaluations
  race,        \* a rebuild of the solvers with a reader beside it
  tasks,       \* one CreateThreadData call
  cache        \* an RBFNode with its samples, its cached build and its outputs

vars ==
  <<kernelIn, kernelOut, setup, solver, solveOut, loop, node, ik, quat, rig, race, tasks,
    cache>>
restVars == <<quat, rig, race, tasks, cache>>
kernelVars == <<kernelIn, kernelOut>>
solverVars == <<setup, solver, solveOut>>

KernelIdle == kernelIn = "idle" /\ kernelOut = "idle"
SolverIdle == setup = "idle" /\ solver = "idle" /\ solveOut = "idle"
LoopIdle == loop = "idle"
NodeIdle == node = "idle"
IkIdle == ik = "idle"
QuatIdle == quat = "idle"
RigIdle == rig = "idle"
RaceIdle == race = "idle"
TasksIdle == tasks = "idle"
CacheIdle == cache = "idle"
RestIdle == QuatIdle /\ RigIdle /\ RaceIdle /\ TasksIdle /\ CacheIdle

(***************************************************************************)
(* The kernels: applyRbf on one matrix entry.  Radius and distance are     *)
(* drawn in steps of 0.0005, so that values below, at and above the radius *)
(* floor 0.001 occur.                                                      *)
(***************************************************************************)
MaxTick == 4
KernelValues == {NRat(Rat(n, 2000)) : n \in 0..MaxTick}

NoResult == KernelResult("none", NZero, TRUE, NZero)

KernelInit ==
  /\ kernelIn \in [rbf : Kernels, radius : KernelValues, x : KernelValues]
  /\ kernelOut = NoResult
  /\ SolverIdle /\ LoopIdle /\ NodeIdle /\ IkIdle /\ RestIdle

\* m = m.unaryExpr(Kernel(radius)) on the entry x
ApplyRbf ==
  /\ kernelOut = NoResult
  /\ kernelOut' = applyRbf(kernelIn.x, kernelIn.rbf, kernelIn.radius)
  /\ UNCHANGED <<kernelIn, solverVars, loop, node, ik, restVars>>

KernelNext == ApplyRbf
SpecKernel == KernelInit /\ [][KernelNext]_vars

\* the value a kernel result stands for is the number 0
IsZeroResult(k) == k.finite /\ k.fn = "val" /\ k.arg = NZero

C8_RadiusFloored ==
  (kernelOut # NoResult /\ kernelIn.rbf \in RadiusKernels /\ kernelIn.radius = NZero)
    => /\ kernelOut.finite
       /\ kernelOut.r = (IF kernelIn.rbf = 1 THEN NMul(RadiusFloor, kFalloff) ELSE RadiusFloor)

(***************************************************************************)
(* One LinearRegressionSolver.  A setup is the training data of one bucket *)
(* with the kernel parameters: features[s] the scalar features of sample   *)
(* s, quats[s] its rotation features, outputs[s] its scalar outputs.  The  *)
(* samples are drawn so that every distance stays a number the arithmetic  *)
(* above represents.                                                       *)
(***************************************************************************)
X90 == Quat(HalfSqrt2, NZero, NZero, HalfSqrt2)
Y90 == Quat(NZero, HalfSqrt2, NZero, HalfSqrt2)

Setup(features, quats, outputs, rbf, radius, regularization, space) ==
  [features |-> features, quats |-> quats, outputs |-> outputs, rbf |-> rbf,
   radius |-> radius, regularization |-> regularization, space |-> space]

\* scalar samples: one feature, the output ten times the feature; two
\* samples under the linear and the Wendland kernel, with and without
\* regularization, three samples under the linear kernel without
ScalarSetup(f, rbf, radius, l) ==
  Setup([s \in 1..Len(f) |-> <<NInt(f[s])>>], [s \in 1..Len(f) |-> <<>>],
        [s \in 1..Len(f) |-> <<NInt(10 * f[s])>>], rbf, radius, NInt(l), SwingTwist)
ScalarSetups ==
  {ScalarSetup(f, k[1], k[2], l) :
     f \in [1..2 -> 0..1], k \in {<<0, NOne>>, <<5, NRat(<<1, 4>>)>>}, l \in 0..1}
  \cup {ScalarSetup(f, 0, NOne, 0) : f \in {<<0, 1, 2>>, <<2, 0, 1>>, <<1, 1, 2>>, <<0, 0, 0>>}}
\* two scalar samples under the thin plate kernel with the radius at their
\* normalised distance
ThinPlateSetups ==
  {ScalarSetup(f, 2, HalfSqrt2, l) : f \in [1..2 -> 0..1], l \in 0..1}
\* rotation samples, one rotation slot, no scalar feature
RotationSetups ==
  {Setup([s \in 1..2 |-> <<>>], [s \in 1..2 |-> <<q[s]>>],
         [s \in 1..2 |-> <<NInt(10 * s)>>], 0, NOne, NOne, space) :
     q \in {<<QuatIdentity, X90>>, <<X90, Y90>>, <<Y90, Y90>>},
     space \in {Swing, Twist, SwingTwist}}
\* the same under a global radius that is not 1
HalfRadiusSetups ==
  {Setup([s \in 1..2 |-> <<>>], [s \in 1..2 |-> <<q[s]>>],
         [s \in 1..2 |-> <<NInt(10 * s)>>], 0, NHalf, NOne, space) :
     q \in {<<X90, Y90>>}, space \in {Swing, Twist, SwingTwist}}
\* two samples with two rotation slots each
TwoSlotSetups ==
  {Setup([s \in 1..2 |-> <<>>], <<<<QuatIdentity, X90>>, <<X90, Y90>>>>,
         [s \in 1..2 |-> <<NInt(10 * s)>>], 0, NOne, NOne, SwingTwist)}
Setups ==
  ScalarSetups \cup ThinPlateSetups \cup RotationSetups \cup HalfRadiusSetups \cup TwoSlotSetups

\* the matrices buildFeatureMatrix makes of the first n samples of a setup
SetupFeatureMatrix(su, n) ==
  IF n = 0 \/ Len(su.features[1]) = 0 THEN EmptyMat
  ELSE MatOfRows(SubSeq(su.features, 1, n), Len(su.features[1]))
SetupOutputMatrix(su, n) ==
  IF n = 0 \/ Len(su.outputs[1]) = 0 THEN EmptyMat
  ELSE MatOfRows(SubSeq(su.outputs, 1, n), Len(su.outputs[1]))
SetupQuats(su, n) ==
  IF Len(su.quats[1]) = 0 THEN <<>> ELSE SubSeq(su.quats, 1, n)

NoSolve == [status |-> "none", query |-> 0, weights |-> <<>>, outputs |-> <<>>,
            outputQuats |-> <<>>]

SolverInit ==
  /\ setup \in Setups
  /\ solver = NewSolver
  /\ solveOut = NoSolve
  /\ KernelIdle /\ LoopIdle /\ NodeIdle /\ IkIdle /\ RestIdle

\* setFeatures with the first n samples of the setup
SetFeaturesOf(n) ==
  /\ solver' = setFeatures(solver, SetupFeatureMatrix(setup, n), SetupQuats(setup, n),
                           SetupOutputMatrix(setup, n), <<>>, setup.rbf, setup.radius,
                           setup.regularization, setup.space)
  /\ solveOut' = NoSolve
  /\ UNCHANGED <<setup, kernelVars, loop, node, ik, restVars>>

\* setFeatures with all samples
SetFeatures == SetFeaturesOf(Len(setup.features))
\* setFeatures with no sample or with one
SetFeaturesFew == \E n \in 0..1 : SetFeaturesOf(n)

\* solve, queried at the features of sample q of the setup, with the empty
\* outputs RBFNode::compute passes.  A solve that stores past the end of
\* inputDistance has undefined behaviour: the build either stops at Eigen's
\* index assertion or goes on with what the loop stored inside the row.
SolveOutcomes(q, res) ==
  {[status |-> "returned", query |-> q, weights |-> res.weights,
    outputs |-> res.outputs, outputQuats |-> res.outputQuats]}
  \cup (IF res.outOfRange
        THEN {[status |-> "crashed", query |-> q, weights |-> <<>>,
               outputs |-> <<>>, outputQuats |-> <<>>]}
        ELSE {})
Solve ==
  \E q \in 1..Len(setup.features) :
    /\ solveOut' \in SolveOutcomes(q, solve(solver, setup.features[q], setup.quats[q],
                                            <<>>, <<>>))
    /\ UNCHANGED <<setup, solver, kernelVars, loop, node, ik, restVars>>

SolverNext == SetFeatures \/ SetFeaturesFew \/ Solve
SpecSolver == SolverInit /\ [][SolverNext]_vars

\* the last solve returned nothing and left the caller's outputs empty
EmptySolve ==
  /\ solveOut.status = "returned"
  /\ solveOut.weights = <<>> /\ solveOut.outputs = <<>> /\ solveOut.outputQuats = <<>>

\* C1: a solver whose last setFeatures got 0 or 1 samples holds a 0x0
\* coefficient matrix, and every solve on it returns an empty weight vector
\* and leaves the scalar and the rotation outputs empty, without an error.
C1_FewSamplesEmpty ==
  SampleCount(solver) <= 1
    => /\ solver.theta_ = EmptyMat
       /\ solveOut # NoSolve => EmptySolve

\* a solve has returned on a solver that setFeatures gave one sample
C1_Witness ==
  /\ SampleCount(solver) = 1 /\ solver.theta_ = EmptyMat
  /\ solveOut # NoSolve /\ EmptySolve

\* the setup has scalar features only, pairwise distinct, and regularization 0
DistinctScalarSetup ==
  /\ Len(setup.features) >= 2 /\ Len(setup.features[1]) > 0 /\ Len(setup.quats[1]) = 0
  /\ setup.regularization = NZero
  /\ \A i, j \in 1..Len(setup.features) : i # j => setup.features[i] # setup.features[j]

\* C6 as stated: with regularization 0 and at least two samples with pairwise
\* distinct scalar features, a query at exactly the features of a training
\* sample yields the scalar outputs of that sample.
C6_TrainingSampleReproduced ==
  (DistinctScalarSetup /\ SampleCount(solver) = Len(setup.features)
     /\ solveOut.status = "returned")
    => solveOut.outputs = setup.outputs[solveOut.query]

(***************************************************************************)
(* The loops of solve over the rotation inputs, one pass of the innermost  *)
(* loop a step, on a solver that setFeatures built from sampleCount        *)
(* samples with inputCount scalar features and inputQuatCount rotation     *)
(* slots.  loop holds the counters i, s1, c and idx, the width of          *)
(* inputDistance, and in last the pass that ran last with the two indices  *)
(* it stored at.                                                           *)
(***************************************************************************)
MaxLoopSamples == 3
MaxLoopInputs == 2
MaxLoopQuats == 2

NoPass == [slot |-> -1, sample |-> -1, column |-> -1, swingAt |-> -1, twistAt |-> -1]

\* VectorXd inputDistance = VectorXd::Zero(theta_.cols());
\* int idx = inputCount ? sampleCount : 0;
LoopStart(sampleCount, inputCount, inputQuatCount) ==
  [sampleCount |-> sampleCount, inputCount |-> inputCount, inputQuatCount |-> inputQuatCount,
   width |-> TrainCols(sampleCount, inputCount, inputQuatCount),
   idx |-> ValueCols(sampleCount, inputCount),
   i |-> 0, s1 |-> 0, c |-> 0, last |-> NoPass, status |-> "running"]

LoopInit ==
  /\ loop \in {LoopStart(sampleCount, inputCount, inputQuatCount) :
                 sampleCount \in 2..MaxLoopSamples, inputCount \in 0..MaxLoopInputs,
                 inputQuatCount \in 0..MaxLoopQuats}
  /\ KernelIdle /\ SolverIdle /\ NodeIdle /\ IkIdle /\ RestIdle

\* the counters after ++c, and after ++s1 and ++i when an inner loop ends
NextCounters(l) ==
  IF l.c + 1 < l.inputQuatCount THEN [l EXCEPT !.c = l.c + 1]
  ELSE IF l.s1 + 1 < l.sampleCount THEN [l EXCEPT !.c = 0, !.s1 = l.s1 + 1]
  ELSE [l EXCEPT !.c = 0, !.s1 = 0, !.i = l.i + 1]
\* inputDistance[idx++] = swingDistance; inputDistance[idx++] = twistDistance;
StoreDistances(l) ==
  NextCounters([l EXCEPT !.idx = l.idx + 2,
                         !.last = [slot |-> l.i, sample |-> l.s1, column |-> l.c,
                                   swingAt |-> l.idx, twistAt |-> l.idx + 1]])

\* one pass of the loop over c.  A store past the end of inputDistance has
\* undefined behaviour; here the build goes on.
StorePass ==
  /\ loop.status = "running" /\ loop.i < loop.inputQuatCount
  /\ loop' = StoreDistances(loop)
  /\ UNCHANGED <<kernelVars, solverVars, node, ik, restVars>>

\* a store past the end of inputDistance stops at the index assertion
StoreAsserts ==
  /\ loop.status = "running" /\ loop.i < loop.inputQuatCount
  /\ loop.idx + 1 >= loop.width
  /\ loop' = [loop EXCEPT !.status = "aborted"]
  /\ UNCHANGED <<kernelVars, solverVars, node, ik, restVars>>

\* i reached inputQuatCount
LoopEnds ==
  /\ loop.status = "running" /\ loop.i >= loop.inputQuatCount
  /\ loop' = [loop EXCEPT !.status = "done"]
  /\ UNCHANGED <<kernelVars, solverVars, node, ik, restVars>>

LoopNext == StorePass \/ StoreAsserts \/ LoopEnds
SpecLoop == LoopInit /\ [][LoopNext]_vars

\* C5 as stated: for S >= 2 samples, k >= 0 scalar features and Q >= 0
\* rotation slots the query row is as wide as the training matrix,
\* (k > 0 ? S : 0) + 2 * S * Q; every index solve stores at lies inside the
\* row; and the swing and twist distances of rotation slot i against sample s
\* are stored at the columns setFeatures used for slot i and sample s.
C5_QueryRowMatchesTraining ==
  /\ loop.width = (IF loop.inputCount > 0 THEN loop.sampleCount ELSE 0)
                    + 2 * loop.sampleCount * loop.inputQuatCount
  /\ loop.last # NoPass
       => /\ loop.last.swingAt < loop.width /\ loop.last.twistAt < loop.width
          /\ loop.last.swingAt
               = TrainSwingCol(loop.sampleCount, loop.inputCount, loop.last.slot,
                               loop.last.sample)
          /\ loop.last.twistAt
               = TrainTwistCol(loop.sampleCount, loop.inputCount, loop.last.slot,
                               loop.last.sample)

(***************************************************************************)
(* One RBFNode with one scalar input, one scalar output, no rotation       *)
(* inputs or outputs, and absolute output mode, so that neutralValues_ and *)
(* neutralQuats_ stay empty.  node holds the attribute values (samples,    *)
(* rbf, radius, regularization, input), the members dirty_ and solvers_,   *)
(* and what the steps did: edited (an attribute that the solvers are built *)
(* from was set since the last compute, or the node is new), last (the     *)
(* last step), and for a compute wasEdited (edited as it was before),      *)
(* builds (the calls of buildFeatureMatrix it made), changed (whether      *)
(* solvers_ differs from before), buckets (the samples buildFeatureMatrix  *)
(* pushed to each bucket, by index) and out.  Sample k is authored with    *)
(* the input k - 1 and the output 10 * (k - 1).                            *)
(***************************************************************************)
MaxEdits == 1
SampleCounts == 0..2
NodeKernels == {0, 5}
NodeRadii == {NRat(<<1, 4>>), NRat(<<1, 8>>)}
NodeRegularizations == {NZero, NOne}
NodeInputs == 0..1

Spaces == <<Swing, Twist, SwingTwist>>
NoBuckets == [i \in 0..2 |-> <<>>]
NoOutput == [weights |-> [i \in 0..2 |-> <<>>], scalars |-> [i \in 0..2 |-> <<>>],
             outValues |-> <<>>]

Sample(rotationType, k) == [rotationType |-> rotationType, input |-> k - 1, output |-> 10 * (k - 1)]

\* RBFNode::RBFNode() : dirty_(true), with the attribute values of the scene
NewNode(samples) ==
  [samples |-> samples, rbf |-> 0, radius |-> NRat(<<1, 4>>), regularization |-> NZero,
   input |-> 0, dirty_ |-> TRUE, solvers_ |-> [i \in 0..2 |-> NewSolver],
   edits |-> 0, edited |-> TRUE, last |-> "new", wasEdited |-> FALSE, builds |-> 0,
   changed |-> FALSE,
   buckets |-> NoBuckets, out |-> NoOutput]

\* the plugs setDependentsDirty sets dirty_ for
DirtyPlugs == {"aInputValueCount", "aInputQuatCount", "aOutputValueCount", "aOutputQuatCount",
               "aRBFFunction", "aRadius", "aRegularization", "aSamples", "aSampleInputValues",
               "aSampleInputQuats", "aSampleOutputValues", "aSampleOutputQuats",
               "aSampleRadius", "aSampleRotationType", "aSampleOutputMode"}
\* RBFNode::setDependentsDirty
setDependentsDirty(n, plug) ==
  IF plug \in DirtyPlugs THEN [n EXCEPT !.dirty_ = TRUE] ELSE n

\* a bucket choice that puts every sample with the swing samples
BucketSwing(sample) == Swing
\* inputScalars[rotationType].push_back(values): the bucket of a sample
BucketOf(sample) == sample.rotationType
\* the loop over the samples from sample k on
RECURSIVE PushSamples(_, _, _)
PushSamples(samples, k, buckets) ==
  IF k > Len(samples) THEN buckets
  ELSE PushSamples(samples, k + 1,
                   [buckets EXCEPT ![BucketOf(samples[k])] = Append(@, k)])
Buckets(samples) == PushSamples(samples, 1, NoBuckets)

\* MatrixXd inputs / outputs of a bucket: empty for an empty bucket, one row
\* a sample otherwise
BucketInputs(samples, bucket) ==
  IF Len(bucket) = 0 THEN EmptyMat
  ELSE MatOfRows([k \in 1..Len(bucket) |-> <<NInt(samples[bucket[k]].input)>>], 1)
BucketOutputs(samples, bucket) ==
  IF Len(bucket) = 0 THEN EmptyMat
  ELSE MatOfRows([k \in 1..Len(bucket) |-> <<NInt(samples[bucket[k]].output)>>], 1)

\* the loop over the three solvers at the end of buildFeatureMatrix
SetBucketFeatures(n, buckets) ==
  [n EXCEPT !.buckets = buckets,
            !.solvers_ =
              [i \in 0..2 |->
                 setFeatures(n.solvers_[i], BucketInputs(n.samples, buckets[i]), <<>>,
                             BucketOutputs(n.samples, buckets[i]), <<>>, n.rbf, n.radius,
                             n.regularization, Spaces[i + 1])]]
\* RBFNode::buildFeatureMatrix
buildFeatureMatrix(n) ==
  IF Len(n.samples) = 0 THEN [n EXCEPT !.buckets = NoBuckets]
  ELSE SetBucketFeatures(n, Buckets(n.samples))

\* a gate that is open at every compute
AlwaysDirty(n) == TRUE
\* if (dirty_)
IsDirty(n) == n.dirty_
\* if (dirty_) { buildFeatureMatrix(...); dirty_ = false; }
Rebuild(n) ==
  IF IsDirty(n)
  THEN [buildFeatureMatrix(n) EXCEPT !.dirty_ = FALSE, !.builds = 1]
  ELSE [n EXCEPT !.builds = 0, !.buckets = NoBuckets]

\* outputScalars.colwise().sum() for one output column; outputScalars starts
\* at zero and row i is set when solver i returned scalars
OutValue(scalars) ==
  IF \E i \in 0..2 : scalars[i] # <<>> /\ scalars[i][1] = NaN THEN NaN
  ELSE NSum([i \in 1..3 |-> IF scalars[i - 1] # <<>> THEN scalars[i - 1][1] ELSE NZero])
Output(results) ==
  After(<<results>>,
        [weights |-> [i \in 0..2 |-> results[i].weights],
         scalars |-> [i \in 0..2 |-> results[i].outputs],
         outValues |-> <<OutValue([i \in 0..2 |-> results[i].outputs])>>])
\* the loop of compute over the three solvers and the output values
Evaluate(n) ==
  After(<<n>>,
        [n EXCEPT !.out = Output([i \in 0..2 |->
                                    solve(n.solvers_[i], <<NInt(n.input)>>, <<>>, <<>>, <<>>)])])
\* RBFNode::compute on an output plug
compute(n) ==
  [Evaluate(Rebuild(n)) EXCEPT !.last = "compute", !.edited = FALSE,
                               !.wasEdited = n.edited,
                               !.changed = (Rebuild(n).solvers_ # n.solvers_)]

\* the scenes: up to two samples of any rotation type
Scenes ==
  UNION {{[k \in 1..c |-> Sample(rt[k], k)] : rt \in [1..c -> 0..2]} : c \in SampleCounts}

NodeInit ==
  /\ node \in {NewNode(samples) : samples \in Scenes}
  /\ KernelIdle /\ SolverIdle /\ LoopIdle /\ IkIdle /\ RestIdle

\* an attribute of the node is set: Maya calls setDependentsDirty on its plug
Edited(n, plug) ==
  [setDependentsDirty(n, plug) EXCEPT !.edits = n.edits + 1, !.edited = TRUE,
                                      !.last = "edit"]
CanEdit == node.edits < MaxEdits

AddSample ==
  /\ CanEdit /\ Len(node.samples) + 1 \in SampleCounts
  /\ \E rt \in 0..2 :
       node' = Edited([node EXCEPT !.samples = Append(@, Sample(rt, Len(node.samples) + 1))],
                      "aSamples")
  /\ UNCHANGED <<kernelVars, solverVars, loop, ik, restVars>>

RemoveSample ==
  /\ CanEdit /\ Len(node.samples) > 0
  /\ node' = Edited([node EXCEPT !.samples = SubSeq(@, 1, Len(@) - 1)], "aSamples")
  /\ UNCHANGED <<kernelVars, solverVars, loop, ik, restVars>>

SetSampleRotationType ==
  /\ CanEdit
  /\ \E k \in 1..Len(node.samples), rt \in 0..2 :
       /\ rt # node.samples[k].rotationType
       /\ node' = Edited([node EXCEPT !.samples[k].rotationType = rt], "aSampleRotationType")
  /\ UNCHANGED <<kernelVars, solverVars, loop, ik, restVars>>

SetSampleInputValue ==
  /\ CanEdit
  /\ \E k \in 1..Len(node.samples), v \in NodeInputs :
       /\ v # node.samples[k].input
       /\ node' = Edited([node EXCEPT !.samples[k].input = v], "aSampleInputValues")
  /\ UNCHANGED <<kernelVars, solverVars, loop, ik, restVars>>

SetRBFFunction ==
  /\ CanEdit
  /\ \E rbf \in NodeKernels \ {node.rbf} :
       node' = Edited([node EXCEPT !.rbf = rbf], "aRBFFunction")
  /\ UNCHANGED <<kernelVars, solverVars, loop, ik, restVars>>

SetRadius ==
  /\ CanEdit
  /\ \E radius \in NodeRadii \ {node.radius} :
       node' = Edited([node EXCEPT !.radius = radius], "aRadius")
  /\ UNCHANGED <<kernelVars, solverVars, loop, ik, restVars>>

SetRegularization ==
  /\ CanEdit
  /\ \E regularization \in NodeRegularizations \ {node.regularization} :
       node' = Edited([node EXCEPT !.regularization = regularization], "aRegularization")
  /\ UNCHANGED <<kernelVars, solverVars, loop, ik, restVars>>

\* the input value is set: its plug is none of those that set dirty_
SetInputValue ==
  /\ \E v \in NodeInputs \ {node.input} :
       node' = [setDependentsDirty([node EXCEPT !.input = v], "aInputValues")
                  EXCEPT !.last = "input"]
  /\ UNCHANGED <<kernelVars, solverVars, loop, ik, restVars>>

Compute ==
  /\ node' = compute(node)
  /\ UNCHANGED <<kernelVars, solverVars, loop, ik, restVars>>

NodeNext ==
  \/ AddSample \/ RemoveSample \/ SetSampleRotationType \/ SetSampleInputValue
  \/ SetRBFFunction \/ SetRadius \/ SetRegularization \/ SetInputValue \/ Compute
SpecNode == NodeInit /\ [][NodeNext]_vars

\* a solver that holds no sample and no coefficient
EmptySolver(s) == SampleCount(s) = 0 /\ s.theta_ = EmptyMat

\* C2 as stated: if the sample array is empty when an evaluation runs, then
\* after that evaluation all three bucket solvers hold an empty state and the
\* evaluation has produced empty results, also when an earlier evaluation
\* had built the solvers from a non-empty sample array.
C2_EmptySamplesEmptyState ==
  (node.last = "compute" /\ Len(node.samples) = 0)
    => \A i \in 0..2 :
         /\ EmptySolver(node.solvers_[i])
         /\ node.out.weights[i] = <<>> /\ node.out.scalars[i] = <<>>

InBucket(bucket, k) == \E p \in 1..Len(bucket) : bucket[p] = k

\* C4: when the node rebuilds, every sample is in exactly one of the three
\* buckets, the one of its rotationType; the bucket sizes sum to the sample
\* count; the samples keep their authored order inside a bucket; and bucket i
\* is built with the rotation-distance mode i by solver i.
C4_SamplesBucketed ==
  (node.last = "compute" /\ node.builds = 1 /\ Len(node.samples) > 0)
    => /\ \A k \in 1..Len(node.samples), i \in 0..2 :
            InBucket(node.buckets[i], k) <=> i = node.samples[k].rotationType
       /\ Len(node.buckets[0]) + Len(node.buckets[1]) + Len(node.buckets[2])
            = Len(node.samples)
       /\ \A i \in 0..2 : \A p, q \in 1..Len(node.buckets[i]) :
            p < q => node.buckets[i][p] < node.buckets[i][q]
       /\ \A i \in 0..2 :
            /\ node.solvers_[i].solverSpace_ = i
            /\ SampleCount(node.solvers_[i]) = Len(node.buckets[i])
            /\ node.solvers_[i].outputScalarMatrix_
                 = BucketOutputs(node.samples, node.buckets[i])

\* a rebuild with two samples of different rotation types
C4_Witness ==
  /\ node.last = "compute" /\ node.builds = 1 /\ Len(node.samples) = 2
  /\ node.samples[1].rotationType = Twist /\ node.samples[2].rotationType = Swing
  /\ node.buckets[Swing] = <<2>> /\ node.buckets[Twist] = <<1>>

(***************************************************************************)
(* One calculateTwoBoneIk call.  The chain is given by its bone lengths    *)
(* lab and lcb and the target by its distance from the root, in steps of   *)
(* 0.0005, so that chains shorter than 2 * eps and targets nearer than     *)
(* the difference of the bones occur.  The lengths are exact numbers, not  *)
(* floats.                                                                 *)
(***************************************************************************)
MaxIkTick == 5
IkLengths == {Rat(n, 2000) : n \in 1..MaxIkTick}
IkDistances == {Rat(n, 2000) : n \in 0..(2 * MaxIkTick + 1)}

\* float eps = 0.001f;
eps == Rat(1, 1000)

\* IKRigNode::clamp
clamp(inValue, minValue, maxValue) ==
  IF RLt(inValue, minValue) THEN minValue
  ELSE IF RLt(maxValue, inValue) THEN maxValue
  ELSE inValue

\* a float quotient: a finite value, or, when the divisor is 0, a NaN for
\* 0 / 0 and an infinity otherwise
Quotient(n, d) ==
  [finite |-> d # RZero, nan |-> (d = RZero /\ n = RZero),
   value |-> IF d # RZero THEN RDiv(n, d) ELSE RZero]
\* (lcb * lcb - lab * lab - lat * lat) / (-2.0f * lab * lat)
CosAcAb(lab, lcb, lat) ==
  Quotient(RSub(RSub(RMul(lcb, lcb), RMul(lab, lab)), RMul(lat, lat)),
           RMul(RMul(RInt(-2), lab), lat))
\* the same quotient over 2 * lab * lcb, without the sign
CosBaBcUnsigned(lab, lcb, lat) ==
  Quotient(RSub(RSub(RMul(lat, lat), RMul(lab, lab)), RMul(lcb, lcb)),
           RMul(RMul(RInt(2), lab), lcb))
\* (lat * lat - lab * lab - lcb * lcb) / (-2.0f * lab * lcb)
CosBaBc(lab, lcb, lat) ==
  Quotient(RSub(RSub(RMul(lat, lat), RMul(lab, lab)), RMul(lcb, lcb)),
           RMul(RMul(RInt(-2), lab), lcb))

\* twoBoneIk up to the desired interior angles: lat, the two cosines as
\* computed, and the cosine of ba_bc_1, the angle acos returns for the
\* clamped value.  The divisor of the second cosine is not 0 for bones of
\* positive length.
DesiredAngles(lab, lcb, lat) ==
  [lat |-> lat,
   cosAcAb |-> CosAcAb(lab, lcb, lat), cosBaBc |-> CosBaBc(lab, lcb, lat),
   cosBaBc1 |-> clamp(CosBaBc(lab, lcb, lat).value, RInt(-1), ROne)]
twoBoneIk(lab, lcb, targetDistance) ==
  DesiredAngles(lab, lcb, clamp(targetDistance, eps, RSub(RAdd(lab, lcb), eps)))

\* acos(clamp(q, -1.0f, 1.0f)) is a number: clamp returns a NaN as it is,
\* since both of its comparisons are false, and takes an infinity to a limit
AcosOfClampFinite(q) == ~q.nan
\* a_gr and b_gr after the products with r0 and r1, which are built from the
\* angles ac_ab_1 and ba_bc_1
RotationsFinite(angles) ==
  AcosOfClampFinite(angles.cosAcAb) /\ AcosOfClampFinite(angles.cosBaBc)

\* The corrected chain.  ikA keeps the position of the root; midPos is mid
\* carried by the rotation of ikA about the root, so it stays at the distance
\* lab; b_gr turns the mid joint by r1 from the interior angle ba_bc_0 to
\* ba_bc_1, which puts the effector, lcb away from the mid, at the squared
\* distance lab^2 + lcb^2 - 2 lab lcb cos(ba_bc_1) from the root.
CorrectedChain(lab, lcb, angles) ==
  [lat |-> angles.lat, cosAcAb |-> angles.cosAcAb, cosBaBc |-> angles.cosBaBc,
   rootMoved |-> FALSE,
   rotationsFinite |-> RotationsFinite(angles),
   midDistance |-> lab,
   effectorDistanceSq |->
     RSub(RAdd(RMul(lab, lab), RMul(lcb, lcb)),
          RMul(RMul(RInt(2), RMul(lab, lcb)), angles.cosBaBc1))]
calculateTwoBoneIk(lab, lcb, targetDistance) ==
  CorrectedChain(lab, lcb, twoBoneIk(lab, lcb, targetDistance))

NoChain == [lat |-> RZero, cosAcAb |-> Quotient(RZero, ROne),
            cosBaBc |-> Quotient(RZero, ROne), rootMoved |-> FALSE,
            rotationsFinite |-> TRUE,
            midDistance |-> RZero, effectorDistanceSq |-> RZero]

IkInit ==
  /\ ik \in [lab : IkLengths, lcb : IkLengths, targetDistance : IkDistances,
             called : {FALSE}, out : {NoChain}]
  /\ KernelIdle /\ SolverIdle /\ LoopIdle /\ NodeIdle /\ RestIdle

CalculateTwoBoneIk ==
  /\ ~ik.called
  /\ ik' = [ik EXCEPT !.called = TRUE,
                      !.out = calculateTwoBoneIk(ik.lab, ik.lcb, ik.targetDistance)]
  /\ UNCHANGED <<kernelVars, solverVars, loop, node, restVars>>

IkNext == CalculateTwoBoneIk
SpecIk == IkInit /\ [][IkNext]_vars

\* x lies in [lo, hi]
RWithin(x, lo, hi) == RLe(lo, x) /\ RLe(x, hi)
\* the quotient is a cosine: finite and in [-1, 1]
IsCosine(q) == q.finite /\ RWithin(q.value, RInt(-1), ROne)
\* what is left of the reach after taking eps off
Reach == RSub(RAdd(ik.lab, ik.lcb), eps)
\* the difference of the bone lengths
BoneDifference == RSub(ik.lab, ik.lcb)
\* the target is not nearer to the root than the bones differ
BeyondBoneDifference(distance) ==
  RLe(RMul(BoneDifference, BoneDifference), RMul(distance, distance))

\* C9 as stated: for all bone lengths lab, lcb > 0 and every target,
\* eps <= lat <= lab + lcb - eps holds and both law-of-cosines expressions
\* at the clamped lat lie within [-1, 1] before any further clamping.
C9_ClampSuffices ==
  ik.called
    => /\ RWithin(ik.out.lat, eps, Reach)
       /\ IsCosine(ik.out.cosAcAb)
       /\ IsCosine(ik.out.cosBaBc)

\* the corrected chain keeps the root, has the mid at the distance lab and
\* the effector at the distance of the target
ChainReaches ==
  /\ ~ik.out.rootMoved
  /\ ik.out.midDistance = ik.lab
  /\ ik.out.effectorDistanceSq = RMul(ik.targetDistance, ik.targetDistance)

\* the distance of the target lies strictly between eps and lab + lcb - eps
TargetInsideReach == RLt(eps, ik.targetDistance) /\ RLt(ik.targetDistance, Reach)

TargetAtEdge ==
  \/ RLe(ik.targetDistance, eps)
  \/ RLe(RAdd(ik.lab, ik.lcb), ik.targetDistance)

\* C11 as stated: twoBoneIk returns finite, non-NaN root and mid rotations
\* both when the target coincides with the root (distance at or below eps,
\* 0 included) and when it is at or beyond the full extension.
C11_EdgeTargetsFinite ==
  (ik.called /\ TargetAtEdge) => ik.out.rotationsFinite

(***************************************************************************)
(* One call of a quaternion function.  The rotations are the 48 unit       *)
(* quaternions of the binary octahedral group: the 8 with one component    *)
(* +-1, the 16 with all components +-1/2 and the 24 with two components    *)
(* +-sqrt(2)/2; their products and dot products stay inside the numbers    *)
(* a + b*sqrt(2), and the cosines 2*dot*dot - 1 are those of AcosOverPi.   *)
(***************************************************************************)
Signs == {1, -1}
AxisUnits ==
  {[k \in 1..4 |-> IF k = i THEN NInt(sg) ELSE NZero] : i \in 1..4, sg \in Signs}
HalfUnits == {[k \in 1..4 |-> NMul(NInt(f[k]), NHalf)] : f \in [1..4 -> Signs]}
PairUnits ==
  {[k \in 1..4 |-> IF k = p[1] THEN NMul(NInt(p[3]), HalfSqrt2)
                   ELSE IF k = p[2] THEN NMul(NInt(p[4]), HalfSqrt2)
                   ELSE NZero] :
     p \in {t \in (1..4) \X (1..4) \X Signs \X Signs : t[1] < t[2]}}
Units == AxisUnits \cup HalfUnits \cup PairUnits

\* the twist part of q about the axis (0 X, 1 Y, 2 Z) is not zero
HasTwist(q, twistAxis) == q[twistAxis + 1] # NZero \/ q[4] # NZero

\* SwingTwistNode::compute: the switch that zeroes the two components of the
\* copy of rotation that are not on twistAxis
TwistPart(rotation, twistAxis) ==
  [k \in 1..4 |-> IF k = 4 \/ k = twistAxis + 1 THEN rotation[k] ELSE NZero]
\* SwingTwistNode::compute up to swing: <<swing, twist>>
SwingTwistParts(rotation, twistAxis) ==
  SwingOf(rotation, QuatNormalize(TwistPart(rotation, twistAxis)))

\* VectorXd::normalize(): the vector divided by its L2 norm, left alone when
\* the norm is 0
SquaredNorm(v) == NSum([k \in 1..Len(v) |-> NSquare(v[k])])
DividedBy(v, norm) == IF norm = NZero THEN v ELSE [k \in 1..Len(v) |-> NDiv(v[k], norm)]
normalize(v) == DividedBy(v, NSqrt(SquaredNorm(v)))

\* MatrixXd Q = inputQuats * weights: the 4 x N matrix, given by its columns,
\* times the column of weights is a 4 x 1 matrix
WeightedSum(inputQuats, weights) ==
  [k \in 1..4 |-> NSum([i \in 1..Len(weights) |-> NMul(inputQuats[i][k], weights[i])])]
\* Q *= Q.transpose() for a 4 x 1 matrix Q: the 4 x 4 outer product
OuterSquare(v) == [i \in 1..4 |-> [j \in 1..4 |-> NMul(v[i], v[j])]]
\* the eigenvector of the largest eigenvalue of an outer product v * v^T: the
\* matrix has rank 1, its columns are multiples of v, and the column of the
\* largest diagonal entry is not zero unless v is.  axis is that column, the
\* eigenvector up to its length and sign; free tells that the matrix is zero
\* and every eigenvalue is 0.
DominantColumn(m) == CHOOSE j \in 1..4 : \A k \in 1..4 : NLe(m[k][k], m[j][j])
ColumnOf(m, j) == [free |-> m[j][j] = NZero, axis |-> [i \in 1..4 |-> m[i][j]]]
DominantEigenvector(m) == After(<<m>>, ColumnOf(m, DominantColumn(m)))
averageQuaternion(inputQuats, weights) ==
  DominantEigenvector(OuterSquare(WeightedSum(inputQuats, weights)))

\* allWeights of RBFNode::compute from the weights one solver returned, the
\* other two solvers having no samples: outputMode 0 copies them, outputMode 1
\* keeps element 0 for the neutral pose and copies the tail
AllWeights(weights, outputMode) ==
  IF outputMode = 0 THEN weights ELSE <<NZero>> \o Tail(weights)
\* if (outputMode == 1) { sum = allWeights.sum(); if (sum < 1.0) allWeights[0] = 1.0 - sum; }
WithNeutral(allWeights, outputMode) ==
  IF outputMode = 1 /\ NLt(NSum(allWeights), NOne)
  THEN [allWeights EXCEPT ![1] = NSub(NOne, NSum(allWeights))]
  ELSE allWeights
\* the weights compute passes to averageQuaternion
ComputeWeights(weights, outputMode) ==
  normalize(WithNeutral(AllWeights(weights, outputMode), outputMode))

NoQuat == QuatIdentity
NoParts == <<NoQuat, NoQuat>>
NoAverage == [free |-> TRUE, axis |-> NoQuat]
QuatCall(fn, q1, q2, twistAxis) ==
  [fn |-> fn, q1 |-> q1, q2 |-> q2, twistAxis |-> twistAxis, done |-> FALSE,
   parts |-> NoParts, distance |-> NInt(-1),
   weights |-> <<NZero, NZero>>, outputMode |-> 0, passed |-> <<NZero, NZero>>,
   average |-> NoAverage]
AverageCall(fn, q1, q2, weights, outputMode) ==
  [QuatCall(fn, q1, q2, 0) EXCEPT !.weights = weights, !.outputMode = outputMode]

DecomposeCalls ==
  {QuatCall("decomposeSwingTwist", q, NoQuat, 0) : q \in {u \in Units : HasTwist(u, 0)}}
SwingTwistNodeCalls ==
  {QuatCall("SwingTwistNode", c[1], NoQuat, c[2]) :
     c \in {d \in Units \X (0..2) : HasTwist(d[1], d[2])}}

QuatNeg(q) == [k \in 1..4 |-> NNeg(q[k])]
\* a unit quaternion that rounding left a little too long
Overlong(q) == [k \in 1..4 |-> NMul(q[k], NRat(<<1001, 1000>>))]
\* pairs of unit quaternions, and an overlong one with itself and its negative
DistanceCalls ==
  {QuatCall("quaternionDistance", c[1], c[2], 0) : c \in Units \X Units}
  \cup {QuatCall("quaternionDistance", Overlong(q), q, 0) : q \in Units}
  \cup {QuatCall("quaternionDistance", q, QuatNeg(Overlong(q)), 0) : q \in Units}

\* theta_ * inputDistance of a solve over two samples
SolveWeights ==
  {<<NOne, NZero>>, <<NHalf, NHalf>>, <<NInt(3), NInt(4)>>, <<NInt(1), NInt(7)>>,
   <<NInt(7), NInt(1)>>}
\* the two quaternions of one output rotation and the weights of solve
SolveAverageCalls ==
  {AverageCall("solve", c[1], c[2], c[3], 0) : c \in Units \X AxisUnits \X SolveWeights}
\* weights as solve returns them, of norm 1
ReturnedWeights ==
  {<<NOne, NZero>>, <<NZero, NOne>>, <<NRat(<<3, 5>>), NRat(<<4, 5>>)>>,
   <<NRat(<<4, 5>>), NRat(<<3, 5>>)>>}
RationalUnits == AxisUnits \cup HalfUnits
ComputeAverageCalls ==
  {AverageCall("compute", c[1], c[2], c[3], c[4]) :
     c \in RationalUnits \X AxisUnits \X ReturnedWeights \X (0..1)}

QuatCalls ==
  DecomposeCalls \cup SwingTwistNodeCalls \cup DistanceCalls
  \cup SolveAverageCalls \cup ComputeAverageCalls

QuatInit ==
  /\ quat \in QuatCalls
  /\ KernelIdle /\ SolverIdle /\ LoopIdle /\ NodeIdle /\ IkIdle /\ RigIdle /\ RaceIdle
  /\ TasksIdle /\ CacheIdle

\* decomposeSwingTwist(q, swing, twist) of the regression solver
DecomposeSwingTwist ==
  /\ quat.fn = "decomposeSwingTwist" /\ ~quat.done
  /\ quat' = [quat EXCEPT !.done = TRUE, !.parts = decomposeSwingTwist(quat.q1)]
  /\ UNCHANGED <<kernelVars, solverVars, loop, node, ik, rig, race, tasks, cache>>

\* the decomposition in SwingTwistNode::compute
SwingTwistNodeCompute ==
  /\ quat.fn = "SwingTwistNode" /\ ~quat.done
  /\ quat' = [quat EXCEPT !.done = TRUE,
                          !.parts = SwingTwistParts(quat.q1, quat.twistAxis)]
  /\ UNCHANGED <<kernelVars, solverVars, loop, node, ik, rig, race, tasks, cache>>

\* quaternionDistance(q1, q2)
QuaternionDistance ==
  /\ quat.fn = "quaternionDistance" /\ ~quat.done
  /\ quat' = [quat EXCEPT !.done = TRUE, !.distance = quaternionDistance(quat.q1, quat.q2)]
  /\ UNCHANGED <<kernelVars, solverVars, loop, node, ik, rig, race, tasks, cache>>

\* solve from output.normalize() on, for one output rotation
SolveAverage ==
  /\ quat.fn = "solve" /\ ~quat.done
  /\ quat' = [quat EXCEPT !.done = TRUE,
                          !.passed = normalize(quat.weights),
                          !.average = averageQuaternion(<<quat.q1, quat.q2>>,
                                                        normalize(quat.weights))]
  /\ UNCHANGED <<kernelVars, solverVars, loop, node, ik, rig, race, tasks, cache>>

\* RBFNode::compute from the weights of the solver to averageQuaternion, for
\* one output rotation
ComputeAverage ==
  /\ quat.fn = "compute" /\ ~quat.done
  /\ quat' = [quat EXCEPT !.done = TRUE,
                          !.passed = ComputeWeights(quat.weights, quat.outputMode),
                          !.average = averageQuaternion(<<quat.q1, quat.q2>>,
                                         ComputeWeights(quat.weights, quat.outputMode))]
  /\ UNCHANGED <<kernelVars, solverVars, loop, node, ik, rig, race, tasks, cache>>

QuatNext ==
  \/ DecomposeSwingTwist \/ SwingTwistNodeCompute \/ QuaternionDistance
  \/ SolveAverage \/ ComputeAverage
SpecQuat == QuatInit /\ [][QuatNext]_vars

\* a call of one of the two decompositions has returned
Decomposed == quat.done /\ quat.fn \in {"decomposeSwingTwist", "SwingTwistNode"}

\* C12: for every unit quaternion q whose twist part is not zero, the
\* decomposition yields swing and twist with twist * swing = q, and twist has
\* zero components on the two axes orthogonal to the twist axis (y and z for
\* the regression solver, the two axes not selected for the swingTwist node).
C12_TwistTimesSwing ==
  Decomposed
    => /\ QuatMul(quat.parts[2], quat.parts[1]) = quat.q1
       /\ \A k \in 1..3 : k # quat.twistAxis + 1 => quat.parts[2][k] = NZero

\* a returned decomposition of a rotation about no coordinate axis, with a
\* twist and a swing that both turn
C12_Witness ==
  /\ Decomposed /\ quat.q1 \in HalfUnits
  /\ quat.parts[1] # QuatIdentity /\ quat.parts[2] # QuatIdentity
  /\ QuatMul(quat.parts[2], quat.parts[1]) = quat.q1

\* a call of quaternionDistance has returned
Measured == quat.done /\ quat.fn = "quaternionDistance"
\* the argument of acos in quaternionDistance
AcosArgument(q1, q2) == NSub(NMul(NInt(2), NSquare(quaternionDot(q1, q2))), NOne)

\* C13: quaternionDistance(q1, q2) equals quaternionDistance(q2, q1), lies in
\* [0, 1] for all unit quaternions, its acos argument 2*dot^2 - 1 being within
\* [-1, 1] as the dot product is clamped, and is 0 exactly when q1 = q2 or
\* q1 = -q2.
C13_DistanceIsMetricLike ==
  Measured
    => /\ quat.distance = quaternionDistance(quat.q2, quat.q1)
       /\ NLe(NZero, quat.distance) /\ NLe(quat.distance, NOne)
       /\ NLe(NInt(-1), AcosArgument(quat.q1, quat.q2))
       /\ NLe(AcosArgument(quat.q1, quat.q2), NOne)
       /\ (quat.q1 \in Units /\ quat.q2 \in Units)
            => (quat.distance = NZero <=> (quat.q1 = quat.q2 \/ quat.q1 = QuatNeg(quat.q2)))

\* the distance 0 between a rotation and its negative, which the dot product
\* alone would tell apart
C13_Witness ==
  /\ Measured /\ quat.q1 \in HalfUnits /\ quat.q1 = QuatNeg(quat.q2)
  /\ quat.distance = NZero

(***************************************************************************)
(* IKRigNode over its evaluations.  One compute runs as a sequence of      *)
(* steps, the part of compute up to the root output and then one step a    *)
(* call of a calculate...Ik function, in the order of the calls in         *)
(* compute.  A step names the members it reads that an earlier step of     *)
(* the evaluation is to have written, the members it writes, and the body  *)
(* parts it passes to setOutput, in order.  The matrices themselves are    *)
(* not carried; the forward vector of the root motion is, as <<x, z>>.     *)
(***************************************************************************)
\* enum IKRigPart without IKRig_Count, in the order of the enumeration
IKRigPart ==
  <<
    "IKRig_Root", "IKRig_Hips", "IKRig_Chest", "IKRig_Neck", "IKRig_Head",
    "IKRig_LeftClavicle", "IKRig_LeftShoulder", "IKRig_LeftElbow",
    "IKRig_LeftHand", "IKRig_LeftUpLeg", "IKRig_LeftLoLeg", "IKRig_LeftFoot",
    "IKRig_RightClavicle", "IKRig_RightShoulder", "IKRig_RightElbow",
    "IKRig_RightHand", "IKRig_RightUpLeg", "IKRig_RightLoLeg",
    "IKRig_RightFoot", "IKRig_LeftThumb01", "IKRig_LeftThumb02",
    "IKRig_LeftThumb03", "IKRig_LeftIndex01", "IKRig_LeftIndex02",
    "IKRig_LeftIndex03", "IKRig_LeftMiddle01", "IKRig_LeftMiddle02",
    "IKRig_LeftMiddle03", "IKRig_LeftRing01", "IKRig_LeftRing02",
    "IKRig_LeftRing03", "IKRig_LeftPinky01", "IKRig_LeftPinky02",
    "IKRig_LeftPinky03", "IKRig_RightThumb01", "IKRig_RightThumb02",
    "IKRig_RightThumb03", "IKRig_RightIndex01", "IKRig_RightIndex02",
    "IKRig_RightIndex03", "IKRig_RightMiddle01", "IKRig_RightMiddle02",
    "IKRig_RightMiddle03", "IKRig_RightRing01", "IKRig_RightRing02",
    "IKRig_RightRing03", "IKRig_RightPinky01", "IKRig_RightPinky02",
    "IKRig_RightPinky03" >>
IKRig_Count == Len(IKRigPart)
BodyParts == {IKRigPart[i] : i \in 1..IKRig_Count}

\* the finger[3] arrays of compute with the hand each is passed with, in
\* the order of the calls
Fingers ==
  <<
     <<"IKRig_LeftHand", <<"IKRig_LeftThumb01", "IKRig_LeftThumb02", "IKRig_LeftThumb03">>>>,
     <<"IKRig_LeftHand", <<"IKRig_LeftIndex01", "IKRig_LeftIndex02", "IKRig_LeftIndex03">>>>,
     <<"IKRig_LeftHand", <<"IKRig_LeftMiddle01", "IKRig_LeftMiddle02", "IKRig_LeftMiddle03">>>>,
     <<"IKRig_LeftHand", <<"IKRig_LeftRing01", "IKRig_LeftRing02", "IKRig_LeftRing03">>>>,
     <<"IKRig_LeftHand", <<"IKRig_LeftPinky01", "IKRig_LeftPinky02", "IKRig_LeftPinky03">>>>,
     <<"IKRig_RightHand", <<"IKRig_RightThumb01", "IKRig_RightThumb02", "IKRig_RightThumb03">>>>,
     <<"IKRig_RightHand", <<"IKRig_RightIndex01", "IKRig_RightIndex02", "IKRig_RightIndex03">>>>,
     <<"IKRig_RightHand", <<"IKRig_RightMiddle01", "IKRig_RightMiddle02", "IKRig_RightMiddle03">>>>,
     <<"IKRig_RightHand", <<"IKRig_RightRing01", "IKRig_RightRing02", "IKRig_RightRing03">>>>,
     <<"IKRig_RightHand", <<"IKRig_RightPinky01", "IKRig_RightPinky02", "IKRig_RightPinky03">>>> >>

Stage(fn, reads, writes, parts) ==
  [fn |-> fn, reads |-> reads, writes |-> writes, parts |-> parts]
\* the member a hand's matrix is kept in
HandMember(hand) == IF hand = "IKRig_LeftHand" THEN "leftHand_" ELSE "rightHand_"
\* the local of compute that calculateArmIk fills for the fingers of a hand
HandOffset(hand) ==
  IF hand = "IKRig_LeftHand" THEN "leftHandRotationOffset" ELSE "rightHandRotationOffset"

\* compute up to setOutput(..., IKRig_Root, scaledRootMotion_)
RootStage ==
  Stage("compute", {},
        {"strideScale_", "rotationDelta_", "translationDelta_", "scaledRootMotion_",
         "toScaledRootMotion_"},
        <<"IKRig_Root">>)
calculateHipIk ==
  Stage("calculateHipIk", {"toScaledRootMotion_"}, {"hipScale_", "hips_"}, <<"IKRig_Hips">>)
calculateLegIk(upLeg, loLeg, foot) ==
  Stage("calculateLegIk",
        {"hips_", "hipScale_", "strideScale_", "rotationDelta_", "translationDelta_",
         "toScaledRootMotion_"},
        {}, <<upLeg, loLeg, foot>>)
\* a chest stage that leaves chest_ as the evaluation before left it
calculateChestIkKeepingChest ==
  Stage("calculateChestIk", {"hips_", "toScaledRootMotion_"}, {"spineScale_"},
        <<"IKRig_Chest">>)
calculateChestIk ==
  Stage("calculateChestIk", {"hips_", "toScaledRootMotion_"}, {"spineScale_", "chest_"},
        <<"IKRig_Chest">>)
calculateArmIk(clavicle, upArm, loArm, hand) ==
  Stage("calculateArmIk", {"chest_", "rotationDelta_", "toScaledRootMotion_"},
        {HandMember(hand), HandOffset(hand)}, <<clavicle, upArm, loArm, hand>>)
calculateHeadIk ==
  Stage("calculateHeadIk", {"chest_", "toScaledRootMotion_"}, {"neckScale_"},
        <<"IKRig_Neck", "IKRig_Head">>)
calculateFingerIk(finger, hand) ==
  Stage("calculateFingerIk", {HandMember(hand), HandOffset(hand), "toScaledRootMotion_"},
        {}, finger)

\* the calls of compute after the root output, with the arms before the chest
StagesArmsFirst ==
  <<RootStage, calculateHipIk,
    calculateLegIk("IKRig_LeftUpLeg", "IKRig_LeftLoLeg", "IKRig_LeftFoot"),
    calculateLegIk("IKRig_RightUpLeg", "IKRig_RightLoLeg", "IKRig_RightFoot"),
    calculateArmIk("IKRig_LeftClavicle", "IKRig_LeftShoulder", "IKRig_LeftElbow",
                   "IKRig_LeftHand"),
    calculateArmIk("IKRig_RightClavicle", "IKRig_RightShoulder", "IKRig_RightElbow",
                   "IKRig_RightHand"),
    calculateChestIk, calculateHeadIk>>
  \o [f \in 1..Len(Fingers) |-> calculateFingerIk(Fingers[f][2], Fingers[f][1])]
\* the steps of compute in the order of its calls
Stages ==
  <<RootStage, calculateHipIk,
    calculateLegIk("IKRig_LeftUpLeg", "IKRig_LeftLoLeg", "IKRig_LeftFoot"),
    calculateLegIk("IKRig_RightUpLeg", "IKRig_RightLoLeg", "IKRig_RightFoot"),
    calculateChestIk,
    calculateArmIk("IKRig_LeftClavicle", "IKRig_LeftShoulder", "IKRig_LeftElbow",
                   "IKRig_LeftHand"),
    calculateArmIk("IKRig_RightClavicle", "IKRig_RightShoulder", "IKRig_RightElbow",
                   "IKRig_RightHand"),
    calculateHeadIk>>
  \o [f \in 1..Len(Fingers) |-> calculateFingerIk(Fingers[f][2], Fingers[f][1])]

\* Vectors <<x, z>> of the ground plane.
ZAxis == <<NZero, NOne>>
XAxis == <<NOne, NZero>>
VecAdd(u, v) == <<NAdd(u[1], v[1]), NAdd(u[2], v[2])>>
VecNeg(v) == <<NNeg(v[1]), NNeg(v[2])>>
VecLengthSq(v) == NAdd(NSquare(v[1]), NSquare(v[2]))
\* MVector::normalize, for a vector of non-zero length
VecNormalize(v) ==
  <<NDiv(v[1], NSqrt(VecLengthSq(v))), NDiv(v[2], NSqrt(VecLengthSq(v)))>>

\* forward += prevForward_.front(); prevForward_.pop();
\* forward += prevForward_.front(): the sum before forward.normalize()
ForwardSum(forward, prevForward) == VecAdd(VecAdd(forward, prevForward[1]), prevForward[2])
\* a queue that keeps its front: the push without the pop
PushedNoPop(prevForward, forward) == <<prevForward[1], forward>>
\* prevForward_ after the pop and prevForward_.push(forward)
Pushed(prevForward, forward) == <<prevForward[2], forward>>
\* calculateRootMotion, the forward vector: [forward, prevForward_]; raw is
\* forward after forward.y = 0.0 and the first forward.normalize()
SmoothedWith(prevForward, forward) ==
  [forward |-> forward, prevForward_ |-> Pushed(prevForward, forward)]
calculateRootMotion(raw, prevForward) ==
  SmoothedWith(prevForward, VecNormalize(ForwardSum(raw, prevForward)))

\* setOutput(hOutputTranslate, hOutputRotate, bodyPart, matrix) on the output
\* arrays out.  failure tells which JumpToElement fails: "none", "translate"
\* or "rotate"; the function returns at a failure.
setOutputTranslateOnly(out, bodyPart, failure) ==
  [out EXCEPT !.translate[bodyPart] = @ + (IF failure = "translate" THEN 0 ELSE 1),
              !.ok = (failure = "none")]
setOutput(out, bodyPart, failure) ==
  [out EXCEPT !.translate[bodyPart] = @ + (IF failure = "translate" THEN 0 ELSE 1),
              !.rotate[bodyPart] = @ + (IF failure = "none" THEN 1 ELSE 0),
              !.ok = (failure = "none")]
\* the setOutput calls of a step from the k-th on; failAt is the call that
\* fails, 0 for none, and the step returns at the failure
RECURSIVE SetOutputs(_, _, _, _, _)
SetOutputs(out, parts, k, failAt, failure) ==
  IF k > Len(parts) \/ ~out.ok THEN out
  ELSE SetOutputs(setOutput(out, parts[k], IF k = failAt THEN failure ELSE "none"),
                  parts, k + 1, failAt, failure)

MaxEvaluations == 3
\* the raw forward vectors of an evaluation: forward after forward.y = 0.0
\* and forward.normalize()
RawForwards == {ZAxis, VecNeg(ZAxis), XAxis, VecNeg(XAxis)}
\* the squared length of the sum is a positive rational, so that the
\* normalised sum is a number a + b*sqrt(s)
ExactSum(v) == VecLengthSq(v).b = RZero /\ VecLengthSq(v) # NZero

NoOutputs ==
  [translate |-> [p \in BodyParts |-> 0], rotate |-> [p \in BodyParts |-> 0], ok |-> TRUE]
\* IKRigNode::IKRigNode: prevForward_ holds MVector::zAxis twice.  raws and
\* smoothed keep the raw and the smoothed forward vectors of the evaluations
\* that calculated the root motion, after the +Z from before the first.
NewRig ==
  [eval |-> 0, pc |-> 0, status |-> "none", out |-> NoOutputs, written |-> {},
   fresh |-> TRUE, order |-> <<>>, prevForward_ |-> <<ZAxis, ZAxis>>,
   calculated |-> FALSE, raws |-> <<ZAxis>>, smoothed |-> <<ZAxis, ZAxis>>]

\* a step of compute has run with the outputs out
Stepped(r, stage, out) ==
  [r EXCEPT !.out = out,
            !.written = @ \cup stage.writes,
            !.fresh = @ /\ stage.reads \subseteq r.written,
            !.order = Append(@, stage.fn),
            !.pc = @ + 1,
            !.status = IF ~out.ok THEN "failed"
                       ELSE IF r.pc >= Len(Stages) THEN "success" ELSE "running"]
RunStage(r, stage, failAt, failure) ==
  Stepped(r, stage, SetOutputs(r.out, stage.parts, 1, failAt, failure))
\* what can happen to the setOutput calls of a step: none fails, or the
\* k-th fails at one of its two JumpToElement calls
FailPoints(stage) ==
  {<<0, "none">>} \cup ((1..Len(stage.parts)) \X {"translate", "rotate"})

\* compute from its start: a new evaluation
Started(r) ==
  [r EXCEPT !.eval = @ + 1, !.pc = 1, !.status = "running", !.out = NoOutputs,
            !.written = {}, !.fresh = TRUE, !.order = <<>>, !.calculated = FALSE]
\* if (shouldCalculateRootMotion) inputMatrix_[IKRig_Root] = calculateRootMotion()
WithRootMotion(r, raw, motion) ==
  [r EXCEPT !.calculated = TRUE, !.prevForward_ = motion.prevForward_,
            !.raws = Append(@, raw), !.smoothed = Append(@, motion.forward)]

RigInit ==
  /\ rig = NewRig
  /\ KernelIdle /\ SolverIdle /\ LoopIdle /\ NodeIdle /\ IkIdle /\ QuatIdle /\ RaceIdle
  /\ TasksIdle /\ CacheIdle

CanCompute == rig.status # "running" /\ rig.eval < MaxEvaluations
\* compute returns at a JumpToElement on the input arrays that fails
ComputeFailsOnInputs ==
  /\ CanCompute
  /\ rig' = [Started(rig) EXCEPT !.status = "failed", !.pc = 0]
  /\ UNCHANGED <<kernelVars, solverVars, loop, node, ik, quat, race, tasks, cache>>
\* compute up to the root output, without the root motion
ComputeRoot ==
  /\ CanCompute
  /\ \E f \in FailPoints(RootStage) :
       rig' = RunStage(Started(rig), Stages[1], f[1], f[2])
  /\ UNCHANGED <<kernelVars, solverVars, loop, node, ik, quat, race, tasks, cache>>
\* compute up to the root output, with calculateRootMotion
ComputeRootMotion ==
  /\ CanCompute
  /\ \E raw \in RawForwards, f \in FailPoints(RootStage) :
       /\ ExactSum(ForwardSum(raw, rig.prevForward_))
       /\ rig' = RunStage(WithRootMotion(Started(rig), raw,
                                         calculateRootMotion(raw, rig.prevForward_)),
                          Stages[1], f[1], f[2])
  /\ UNCHANGED <<kernelVars, solverVars, loop, node, ik, quat, race, tasks, cache>>

\* the next call of compute is one of fn
StageStep(fn) ==
  /\ rig.status = "running" /\ Stages[rig.pc].fn = fn
  /\ \E f \in FailPoints(Stages[rig.pc]) :
       rig' = RunStage(rig, Stages[rig.pc], f[1], f[2])
  /\ UNCHANGED <<kernelVars, solverVars, loop, node, ik, quat, race, tasks, cache>>
CalculateHipIk == StageStep("calculateHipIk")
CalculateLegIk == StageStep("calculateLegIk")
CalculateChestIk == StageStep("calculateChestIk")
CalculateArmIk == StageStep("calculateArmIk")
CalculateHeadIk == StageStep("calculateHeadIk")
CalculateFingerIk == StageStep("calculateFingerIk")

RigNext ==
  \/ ComputeFailsOnInputs \/ ComputeRoot \/ ComputeRootMotion
  \/ CalculateHipIk \/ CalculateLegIk \/ CalculateChestIk \/ CalculateArmIk
  \/ CalculateHeadIk \/ CalculateFingerIk
SpecRig == RigInit /\ [][RigNext]_vars

\* the place of a stage in the order hips, spine, limbs, extremities
TopDownRank(fn) ==
  CASE fn = "compute" -> 0
    [] fn = "calculateHipIk" -> 1
    [] fn = "calculateChestIk" -> 2
    [] fn \in {"calculateLegIk", "calculateArmIk"} -> 3
    [] fn \in {"calculateHeadIk", "calculateFingerIk"} -> 4
\* the place of a stage in the order hips, legs, chest, arms, head, fingers
CallRank(fn) ==
  CASE fn = "compute" -> 0
    [] fn = "calculateHipIk" -> 1
    [] fn = "calculateLegIk" -> 2
    [] fn = "calculateChestIk" -> 3
    [] fn = "calculateArmIk" -> 4
    [] fn = "calculateHeadIk" -> 5
    [] fn = "calculateFingerIk" -> 6

\* C14 as stated: the stages of an evaluation run in the order hips, spine
\* (chest), limbs (legs and arms), extremities (head, fingers), and each
\* stage reads only intermediate results written earlier in the evaluation.
C14_TopDownOrder ==
  /\ \A i \in 1..Len(rig.order) : \A j \in i..Len(rig.order) :
       TopDownRank(rig.order[i]) <= TopDownRank(rig.order[j])
  /\ rig.fresh
\* C14, amended: the stages of an evaluation run in the order hips, legs,
\* spine (chest), arms, head, fingers, and each stage reads only
\* intermediate results written earlier in the same evaluation.
C14_CallOrder ==
  /\ \A i \in 1..Len(rig.order) : \A j \in i..Len(rig.order) :
       CallRank(rig.order[i]) <= CallRank(rig.order[j])
  /\ rig.fresh
C14_Witness ==
  /\ rig.status = "success" /\ rig.eval > 1
  /\ Len(rig.order) = Len(Stages)
  /\ rig.order[5] = "calculateChestIk"

\* C15: an evaluation that returns success has written the world translation
\* and the Euler rotation of every body part below IKRig_Count, each exactly
\* once.
C15_EveryPartOnce ==
  rig.status = "success" =>
    \A p \in BodyParts : rig.out.translate[p] = 1 /\ rig.out.rotate[p] = 1
C15_Witness ==
  /\ rig.status = "success" /\ rig.eval = 2
  /\ rig.out.translate["IKRig_RightPinky03"] = 1
  /\ rig.out.rotate["IKRig_Root"] = 1

VecCross(u, v) == NSub(NMul(u[1], v[2]), NMul(u[2], v[1]))
VecDot(u, v) == NAdd(NMul(u[1], v[1]), NMul(u[2], v[2]))
\* u is v normalised: a unit vector along v
IsNormalized(u, v) ==
  /\ VecLengthSq(u) = NOne
  /\ VecCross(u, v) = NZero
  /\ NLt(NZero, VecDot(u, v))
\* the evaluation in progress or just finished calculated the root motion
RootMotionDone == rig.calculated /\ rig.status # "none"
LastOf(seq, back) == seq[Len(seq) - back]

\* C20 as stated: with root motion enabled the forward direction of
\* evaluation n is the normalised mean of the raw forward vectors of the
\* evaluations n and n-1, with +Z for the one before the first.
C20_TwoSampleAverage ==
  RootMotionDone =>
    IsNormalized(LastOf(rig.smoothed, 0), VecAdd(LastOf(rig.raws, 0), LastOf(rig.raws, 1)))
\* C20, amended: the forward direction of evaluation n is the normalised sum
\* of the raw forward vector of evaluation n and the forward directions of
\* the evaluations n-1 and n-2, with +Z for those before the first; the
\* queue holds the forward directions of the last two evaluations.
C20_SmoothedWithPreviousTwo ==
  RootMotionDone =>
    /\ IsNormalized(LastOf(rig.smoothed, 0),
                    VecAdd(VecAdd(LastOf(rig.raws, 0), LastOf(rig.smoothed, 1)),
                           LastOf(rig.smoothed, 2)))
    /\ rig.prevForward_ = <<LastOf(rig.smoothed, 1), LastOf(rig.smoothed, 0)>>
C20_Witness ==
  /\ RootMotionDone /\ Len(rig.raws) = 3
  /\ LastOf(rig.raws, 0) = VecNeg(ZAxis)
  /\ LastOf(rig.smoothed, 1) # ZAxis
  /\ LastOf(rig.smoothed, 0) = LastOf(rig.smoothed, 1)

\* a call of averageQuaternion has returned
Averaged == quat.done /\ quat.fn \in {"solve", "compute"}
\* two results of averageQuaternion are the same rotation: the same
\* quaternion up to length and sign
SameRotation(x, y) ==
  /\ ~x.free
  /\ \A i, j \in 1..4 : NMul(x.axis[i], y.axis[j]) = NMul(x.axis[j], y.axis[i])
\* averageQuaternion on the same weights with the first quaternion negated
AverageOfNegated == averageQuaternion(<<QuatNeg(quat.q1), quat.q2>>, quat.passed)

\* C17: averageQuaternion(Q, w) returns the same rotation, up to the sign of
\* the quaternion, when a single q_i is replaced by -q_i.
DefinedAndSame(x, y) == After(<<y>>, ~y.free => SameRotation(x, y))
C17_SignInvariantAverage ==
  (Averaged /\ ~quat.average.free) => DefinedAndSame(quat.average, AverageOfNegated)

\* C18: the weights passed to averageQuaternion sum to 1 when they are not
\* all zero, in solve and in RBFNode::compute.
C18_PartitionOfUnity ==
  (Averaged /\ \E k \in 1..Len(quat.passed) : quat.passed[k] # NZero)
    => NSum(quat.passed) = NOne

\* other sample outputs for the n samples of a build: no output channel, and
\* two channels with an output rotation
OutputsOf(n, channels, scale) ==
  IF n = 0 \/ channels = 0 THEN EmptyMat
  ELSE [r |-> n, c |-> channels,
        v |-> [s \in 1..n |-> [k \in 1..channels |-> NInt(scale * s + k)]]]
OtherOutputs(n) ==
  {<<OutputsOf(n, 0, 0), <<>>>>, <<OutputsOf(n, 2, -5), <<MatZero(4, n)>>>>}
\* theta_ of a build of a new solver from the inputs of the last setFeatures
\* and the outputs out
RebuiltTheta(n, out) ==
  setFeatures(NewSolver, SetupFeatureMatrix(setup, n), SetupQuats(setup, n), out[1], out[2],
              setup.rbf, setup.radius, setup.regularization, setup.space).theta_

\* C19: theta_ depends only on the input features, the kernel, the radius,
\* the regularization and the rotation-distance mode: a build that differs
\* only in the sample outputs or in the number of output channels produces
\* the same theta_.  The builds are compared when setFeatures has returned.
C19_ThetaIgnoresOutputs ==
  (solver # NewSolver /\ solveOut = NoSolve)
    => \A out \in OtherOutputs(SampleCount(solver)) :
         RebuiltTheta(SampleCount(solver), out) = solver.theta_
\* a trained solver whose samples have an output channel
C19_Witness ==
  /\ solver # NewSolver /\ solveOut = NoSolve /\ solver.theta_.r >= 2 /\ ~MatHasNaN(solver.theta_)
  /\ solver.outputScalarMatrix_.c = 1

(***************************************************************************)
(* A rebuild next to a reader.  Neither RBFNode nor LinearRegressionSolver *)
(* holds a lock or swaps a finished build in: setFeatures assigns the      *)
(* members of the solver one statement after the other, and                *)
(* buildFeatureMatrix calls it for the three solvers in turn.  race follows *)
(* one thread that rebuilds and one that evaluates; a member holds the     *)
(* number of the build that assigned it last.  The reader takes the        *)
(* members of one solver in one step; the members it reads at once are     *)
(* what an unsynchronised read can return at the least.                    *)
(***************************************************************************)
MaxBuilds == 2
\* the members of the solver in the order setFeatures assigns them
SolverMembers ==
  <<"featureMatrix_", "featureQuatMatrix_", "outputScalarMatrix_", "outputQuats_", "rbf_",
    "radius_", "solverSpace_", "featureNorms_", "distanceNorm_", "sampleRadius_", "theta_">>
MemberSet == {SolverMembers[k] : k \in 1..Len(SolverMembers)}
\* a solver all of whose members come from build b
BuiltBy(b) == [m \in MemberSet |-> b]
NotRead == BuiltBy(-1)
NewRace ==
  [build |-> 0, building |-> FALSE, i |-> 0, k |-> 1,
   solvers_ |-> [i \in 0..2 |-> BuiltBy(0)],
   reading |-> FALSE, at |-> 0, seen |-> [i \in 0..2 |-> NotRead]]

RaceInit ==
  /\ race = NewRace
  /\ KernelIdle /\ SolverIdle /\ LoopIdle /\ NodeIdle /\ IkIdle /\ QuatIdle /\ RigIdle
  /\ TasksIdle /\ CacheIdle

\* compute finds dirty_ set and enters buildFeatureMatrix
BeginRebuild ==
  /\ ~race.building /\ race.build < MaxBuilds
  /\ race' = [race EXCEPT !.build = @ + 1, !.building = TRUE, !.i = 0, !.k = 1]
  /\ UNCHANGED <<kernelVars, solverVars, loop, node, ik, quat, rig, tasks, cache>>
\* the position of the rebuild after the assignment of member k of solver i:
\* the next member, the next solver, or the return of buildFeatureMatrix
Advanced(r) ==
  IF r.k < Len(SolverMembers) THEN [r EXCEPT !.k = @ + 1]
  ELSE IF r.i < 2 THEN [r EXCEPT !.i = @ + 1, !.k = 1]
  ELSE [r EXCEPT !.building = FALSE, !.i = 0, !.k = 1]
\* one assignment of setFeatures to a member of solvers_[i]
AssignMember ==
  /\ race.building
  /\ race' = Advanced([race EXCEPT !.solvers_[race.i][SolverMembers[race.k]] = race.build])
  /\ UNCHANGED <<kernelVars, solverVars, loop, node, ik, quat, rig, tasks, cache>>
\* a second evaluation enters the loop of compute over the three solvers
ReaderStart ==
  /\ ~race.reading
  /\ race' = [race EXCEPT !.reading = TRUE, !.at = 0, !.seen = [i \in 0..2 |-> NotRead]]
  /\ UNCHANGED <<kernelVars, solverVars, loop, node, ik, quat, rig, tasks, cache>>
\* solvers_[i].solve(...) of that loop: it reads the members of solver i
ReaderSolve ==
  /\ race.reading
  /\ race' = [race EXCEPT !.seen[race.at] = race.solvers_[race.at],
                          !.at = IF race.at < 2 THEN @ + 1 ELSE 0,
                          !.reading = race.at < 2]
  /\ UNCHANGED <<kernelVars, solverVars, loop, node, ik, quat, rig, tasks, cache>>

RaceNext == BeginRebuild \/ AssignMember \/ ReaderStart \/ ReaderSolve
SpecRace == RaceInit /\ [][RaceNext]_vars

\* the solvers the reader has read in its evaluation
SolversRead == {i \in 0..2 : race.seen[i] # NotRead}
\* C16: a reader that runs while a rebuild is in progress never observes a
\* half-applied rebuild: what it reads of one solver comes from one build, and
\* what it reads of the three solvers comes from the same build.
C16_NoHalfAppliedRebuild ==
  /\ \A i \in SolversRead : \E b \in 0..MaxBuilds : race.seen[i] = BuiltBy(b)
  /\ \A i, j \in SolversRead : race.seen[i] = race.seen[j]

\* a solve has returned on a trained solver with rotation features
RotationSolved ==
  /\ solveOut.status = "returned" /\ SampleCount(solver) >= 2
  /\ InputQuatCount(solver) > 0
\* the passes of solve over sample s1 (0-based)
PassesOf(s, s1) ==
  {p \in 0..(SolvePassCount(SampleCount(s), InputQuatCount(s)) - 1) :
     SolvePassSample(SampleCount(s), InputQuatCount(s), p) = s1}
\* the columns (1-based) of the rotation sub-blocks of sample s2 (0-based)
BlockColumns(s, s2) ==
  {TrainSwingCol(SampleCount(s), s.featureMatrix_.c, i, s2) + part :
     i \in 0..(InputQuatCount(s) - 1), part \in 1..2}

\* C21: for every sample of a bucket and every global radius, the radius
\* solve applies to the sample's rotation-distance entries of the query row is
\* the radius setFeatures applied to the sample's rotation sub-block of the
\* training matrix; the kernel is rbf_ in both.
C21_QueryRadiusIsTrainRadius ==
  RotationSolved
    => \A s1 \in 0..(SampleCount(solver) - 1) :
         \A p \in PassesOf(solver, s1), col \in BlockColumns(solver, s1) :
           QueryRadius(solver, p) = TrainRadius(solver, col)

\* the columns (1-based) of the training matrix that hold the swing (part 1)
\* or the twist (part 2) distances
PartColumns(s, part) ==
  {TrainSwingCol(SampleCount(s), s.featureMatrix_.c, i, s2) + part :
     i \in 0..(InputQuatCount(s) - 1), s2 \in 0..(SampleCount(s) - 1)}
AllPasses(s) == 0..(SolvePassCount(SampleCount(s), InputQuatCount(s)) - 1)
\* every entry of the part is 0 before the kernel, in the training matrix and
\* in the row of the last query
PartIsZero(s, part) ==
  /\ \A row \in 1..SampleCount(s), col \in PartColumns(s, part) :
       TrainDistance(s, row, col) = NZero
  /\ \A p \in AllPasses(s) :
       QueryDistance(s, setup.quats[solveOut.query], p, part) = NZero
\* every entry of the part is the distance swingTwistDistance returned
PassKept(s, inputQuats, p, part) ==
  QueryDistance(s, inputQuats, p, part)
    = swingTwistDistance(
        inputQuats[SolvePassSlot(SampleCount(s), InputQuatCount(s), p) + 1],
        s.featureQuatMatrix_[SolvePassSample(SampleCount(s), InputQuatCount(s), p) + 1]
                            [SolvePassColumn(SampleCount(s), InputQuatCount(s), p) + 1])[part]
TrainKept(s, row, i, s2, part) ==
  TrainDistance(s, row, TrainSwingCol(SampleCount(s), s.featureMatrix_.c, i, s2) + part)
    = swingTwistDistance(s.featureQuatMatrix_[row][i + 1],
                         s.featureQuatMatrix_[s2 + 1][i + 1])[part]
PartIsKept(s, part) ==
  /\ \A row \in 1..SampleCount(s), i \in 0..(InputQuatCount(s) - 1),
        s2 \in 0..(SampleCount(s) - 1) : TrainKept(s, row, i, s2, part)
  /\ \A p \in AllPasses(s) : PassKept(s, setup.quats[solveOut.query], p, part)

\* C22: before the kernel is applied, every twist-distance entry of a Swing
\* bucket is 0 and every swing-distance entry of a Twist bucket is 0, in the
\* training matrix of setFeatures and in the query row of solve; the other
\* component, and both components of a Swing+Twist bucket, are the distances
\* swingTwistDistance returned.
C22_UnusedComponentZero ==
  RotationSolved
    => /\ solver.solverSpace_ = Swing => PartIsZero(solver, 2) /\ PartIsKept(solver, 1)
       /\ solver.solverSpace_ = Twist => PartIsZero(solver, 1) /\ PartIsKept(solver, 2)
       /\ solver.solverSpace_ = SwingTwist => PartIsKept(solver, 1) /\ PartIsKept(solver, 2)
\* a Swing bucket whose samples differ in twist, queried at the first sample
C22_Witness ==
  /\ RotationSolved /\ solver.solverSpace_ = Swing /\ solveOut.query = 1
  /\ swingTwistDistance(solver.featureQuatMatrix_[1][1],
                        solver.featureQuatMatrix_[2][1])[2] # NZero
  /\ PartIsZero(solver, 2)

\* setFeatures has built the solver from at least two samples with scalar
\* features
ScalarTrained == SampleCount(solver) >= 2 /\ solver.featureMatrix_.c > 0
\* the feature columns of zero norm hold what the samples hold
ZeroColumnsUnscaled ==
  \A j \in 1..solver.featureMatrix_.c :
    solver.featureNorms_[j] = NZero
      => \A i \in 1..SampleCount(solver) : solver.featureMatrix_.v[i][j] = setup.features[i][j]
\* no 0/0 has reached theta_ or the weights of the last solve
NoNaNResult ==
  /\ ~MatHasNaN(solver.theta_)
  /\ \A k \in 1..Len(solveOut.weights) : solveOut.weights[k] # NaN

\* C24: for every sample set with at least two samples the normalisation in
\* setFeatures and solve never divides by zero: a scalar feature column of
\* zero norm is left unscaled, and a distance matrix of Frobenius norm zero
\* (all samples with the same scalar features) is not divided by that norm.
C24_NoDivisionByZero ==
  ScalarTrained => ZeroColumnsUnscaled /\ NoNaNResult

(***************************************************************************)
(* CreateThreadData of common.cpp.  taskLength, start and end are unsigned *)
(* int; the counts drawn here keep every sum far below 2^32, so no sum     *)
(* wraps.                                                                   *)
(***************************************************************************)
MaxTasks == 4
MaxElements == 7

\* ThreadData<T>, without the pointer to the task data
ThreadData(start, end, numTasks) == [start |-> start, end |-> end, numTasks |-> numTasks]
\* a call of CreateThreadData before its first statement
TaskCall(taskCount, elementCount) ==
  [taskCount |-> taskCount, elementCount |-> elementCount, pc |-> "call", taskLength |-> 0,
   start |-> 0, end |-> 0, lastTask |-> 0, i |-> 0, threadData |-> <<>>]

TasksInit ==
  /\ tasks \in {TaskCall(t, e) : t \in 1..MaxTasks, e \in 0..MaxElements}
  /\ KernelIdle /\ SolverIdle /\ LoopIdle /\ NodeIdle /\ IkIdle
  /\ QuatIdle /\ RigIdle /\ RaceIdle /\ CacheIdle

\* the statements of CreateThreadData before the loop
CreateThreadDataEnter ==
  /\ tasks.pc = "call"
  /\ tasks' = [tasks EXCEPT
       !.pc = "loop",
       !.taskLength = (tasks.elementCount + tasks.taskCount - 1) \div tasks.taskCount,
       !.start = 0,
       !.end = (tasks.elementCount + tasks.taskCount - 1) \div tasks.taskCount,
       !.lastTask = tasks.taskCount - 1,
       !.i = 0]
  /\ UNCHANGED <<kernelVars, solverVars, loop, node, ik, quat, rig, race, cache>>
\* if (i == lastTask) end = elementCount
EndOfTask(t) == IF t.i = t.lastTask THEN t.elementCount ELSE t.end
\* one pass of the loop over the tasks
CreateThreadDataLoop ==
  /\ tasks.pc = "loop" /\ tasks.i < tasks.taskCount
  /\ tasks' = [tasks EXCEPT
       !.threadData = Append(@, ThreadData(tasks.start, EndOfTask(tasks), tasks.taskCount)),
       !.start = @ + tasks.taskLength,
       !.end = EndOfTask(tasks) + tasks.taskLength,
       !.i = @ + 1]
  /\ UNCHANGED <<kernelVars, solverVars, loop, node, ik, quat, rig, race, cache>>

TasksNext == CreateThreadDataEnter \/ CreateThreadDataLoop
SpecTasks == TasksInit /\ [][TasksNext]_vars

\* CreateThreadData has returned
TasksCreated == tasks.pc = "loop" /\ tasks.i = tasks.taskCount
\* the elements of the range [start, end) of a task
RangeOf(td) == {e \in 0..(MaxElements + MaxTasks) : td.start <= e /\ e < td.end}

\* C26: for every taskCount >= 1 and elementCount >= 0 the range of each
\* task satisfies start <= end <= elementCount, the ranges [start, end) are
\* pairwise disjoint, and together they cover exactly the indices
\* 0 .. elementCount - 1.
C26_ChunksPartitionElements ==
  TasksCreated
    => /\ \A t \in 1..tasks.taskCount :
            /\ tasks.threadData[t].start <= tasks.threadData[t].end
            /\ tasks.threadData[t].end <= tasks.elementCount
       /\ \A t, u \in 1..tasks.taskCount :
            t # u => RangeOf(tasks.threadData[t]) \cap RangeOf(tasks.threadData[u]) = {}
       /\ UNION {RangeOf(tasks.threadData[t]) : t \in 1..tasks.taskCount}
            = 0..(tasks.elementCount - 1)

\* the evaluations so far that calculated the root motion, in their order;
\* evaluation n had the raw forward RawOf(n), found the forward directions
\* QueueOf(n) of the two before it, and produced ForwardOf(n)
RootMotionRuns == 1..(Len(rig.raws) - 1)
RawOf(n) == rig.raws[n + 1]
QueueOf(n) == <<rig.smoothed[n], rig.smoothed[n + 1]>>
ForwardOf(n) == rig.smoothed[n + 2]

\* C25 as stated: two evaluations with identical inputs produce identical
\* outputs whatever evaluations happened before, also with
\* calculateRootMotion: no stage reads a member that an earlier evaluation
\* left, and equal raw forward vectors give equal forward directions.
C25_FunctionOfInputs ==
  /\ rig.fresh
  /\ \A m, n \in RootMotionRuns : RawOf(m) = RawOf(n) => ForwardOf(m) = ForwardOf(n)
\* C25, amended: no stage reads a member that an earlier evaluation left, so
\* without calculateRootMotion the outputs are a function of the inputs;
\* with it, two evaluations with identical inputs that find the same two
\* forward directions in prevForward_ produce the same forward direction.
C25_FunctionOfInputsAndQueue ==
  /\ rig.fresh
  /\ \A m, n \in RootMotionRuns :
       (RawOf(m) = RawOf(n) /\ QueueOf(m) = QueueOf(n)) => ForwardOf(m) = ForwardOf(n)
\* a third evaluation has run through; the first two had the same raw
\* forward, found the same queue and gave the same direction, the third had
\* another
C25_Witness ==
  /\ rig.status = "success" /\ rig.eval = 3 /\ Len(rig.raws) = 4
  /\ RawOf(1) = RawOf(2) /\ QueueOf(1) = QueueOf(2) /\ ForwardOf(1) = ForwardOf(2)
  /\ ForwardOf(3) # ForwardOf(2)

(***************************************************************************)
(* One RBFNode with one rotation input, one scalar output and up to two    *)
(* rotation outputs, in absolute or relative output mode.  cache holds the *)
(* attribute values (samples, outputMode, outputQuatCount, inputRestQuats, *)
(* rbf, radius, regularization), the members dirty_, solvers_,             *)
(* neutralValues_ and neutralQuats_, and what the steps did: last (the     *)
(* last step), plug (the plug of the last edit), status (what the last     *)
(* compute returned) and before (the members as the last compute found     *)
(* them).  A sample holds its rotationType, its input rotation, its scalar *)
(* output, its two output rotations and its authored sampleRadius.  The    *)
(* output plugs an evaluation writes after the rebuild are not part of     *)
(* cache.                                                                  *)
(***************************************************************************)
MaxCacheEdits == 1
CacheRotationTypes == {<<Swing, Swing>>, <<Swing, SwingTwist>>, <<Twist, Twist>>}
CacheOutQuats == <<<<X90, Y90>>, <<Y90, X90>>>>
CacheRestQuats == {QuatIdentity, X90}
CacheRadii == {NOne, NHalf}

CacheSample(rotationType, k) ==
  [rotationType |-> rotationType, inputQuats |-> <<IF k = 1 THEN X90 ELSE Y90>>,
   outputValue |-> 10 * k, outputQuats |-> CacheOutQuats[k], sampleRadius |-> NOne]
Members(c) ==
  [solvers_ |-> c.solvers_, neutralValues_ |-> c.neutralValues_,
   neutralQuats_ |-> c.neutralQuats_]
\* RBFNode::RBFNode() : dirty_(true), with the attribute values of the scene
NewCache(samples, outputMode) ==
  [samples |-> samples, outputMode |-> outputMode, outputQuatCount |-> 2,
   inputRestQuats |-> <<QuatIdentity>>, rbf |-> 0, radius |-> NOne,
   regularization |-> NOne,
   dirty_ |-> TRUE, solvers_ |-> [i \in 0..2 |-> NewSolver], neutralValues_ |-> <<>>,
   neutralQuats_ |-> <<>>,
   edits |-> 0, last |-> "new", plug |-> "none", status |-> "none",
   before |-> [solvers_ |-> [i \in 0..2 |-> NewSolver], neutralValues_ |-> <<>>,
               neutralQuats_ |-> <<>>]]

\* quats[j] = quats[j] * inputRestQuats[j].inverse() for the samples of a bucket
SampleDeltas(c, bucket) ==
  [k \in 1..Len(bucket) |->
     [j \in 1..Len(c.inputRestQuats) |->
        QuatMul(c.samples[bucket[k]].inputQuats[j], QuatInverse(c.inputRestQuats[j]))]]
\* getDoubleValues(hOutputValues, outputCount, values) of sample k
SampleOutputValues(c, k) == <<NInt(c.samples[k].outputValue)>>
\* getQuaternionValues(hSampleOutputQuats, outputQuatCount, quats) of sample k
SampleOutputQuats(c, k) == SubSeq(c.samples[k].outputQuats, 1, c.outputQuatCount)

\* if (neutralValues_.size() == 0 && outputMode == 1) neutralValues_ = outputScalars[i][0];
SetNeutralValues(c, bucket) ==
  IF Len(bucket) # 0 /\ Len(c.neutralValues_) = 0 /\ c.outputMode = 1
  THEN [c EXCEPT !.neutralValues_ = SampleOutputValues(c, bucket[1])]
  ELSE c
\* if (neutralQuats_.size() == 0 && outputMode == 1) neutralQuats_ = outputQuats[i][0];
SetNeutralQuats(c, bucket) ==
  IF Len(bucket) # 0 /\ Len(c.neutralQuats_) = 0 /\ c.outputMode = 1
  THEN [c EXCEPT !.neutralQuats_ = SampleOutputQuats(c, bucket[1])]
  ELSE c
\* outputs.row(row++) = v, or v - neutralValues_
StoredValues(c, v) ==
  IF c.outputMode = 0 THEN v ELSE [j \in 1..Len(v) |-> NSub(v[j], c.neutralValues_[j])]
BucketOutputMatrix(c, bucket) ==
  IF Len(bucket) = 0 THEN EmptyMat
  ELSE MatOfRows([k \in 1..Len(bucket) |-> StoredValues(c, SampleOutputValues(c, bucket[k]))], 1)
\* if (outputMode == 1) q = neutralQuats_[0].inverse() * q;
StoredQuat(c, q) ==
  IF c.outputMode = 1 THEN QuatMul(QuatInverse(c.neutralQuats_[1]), q) ELSE q
\* outQuats[quatIdx].col(sampleIdx) for the slots and the samples of a bucket
BucketOutQuats(c, bucket) ==
  IF Len(bucket) = 0 THEN <<>>
  ELSE [j \in 1..c.outputQuatCount |->
          [k \in 1..Len(bucket) |-> StoredQuat(c, SampleOutputQuats(c, bucket[k])[j])]]
\* solvers_[i].setFeatures(inputs, inputQuats[i], outputs, outQuats, ...)
SetSolverFeatures(c, bucket, i) ==
  After(<<c, bucket, i>>,
        [c EXCEPT !.solvers_[i] =
           setFeatures(c.solvers_[i], EmptyMat, SampleDeltas(c, bucket),
                       BucketOutputMatrix(c, bucket), BucketOutQuats(c, bucket), c.rbf,
                       c.radius, c.regularization, Spaces[i + 1])])
\* one turn of the loop over the three solvers
BuildBucket(c, bucket, i) ==
  SetSolverFeatures(SetNeutralQuats(SetNeutralValues(c, bucket), bucket), bucket, i)
RECURSIVE BuildBuckets(_, _, _)
BuildBuckets(c, buckets, i) ==
  IF i > 2 THEN c ELSE BuildBuckets(BuildBucket(c, buckets[i], i), buckets, i + 1)
\* neutralQuats_.clear(); neutralValues_.resize(0);
ClearNeutral(c) == [c EXCEPT !.neutralValues_ = <<>>, !.neutralQuats_ = <<>>]
\* RBFNode::buildFeatureMatrix, where the read of sample failAt fails (of
\* none when failAt is 0)
ReadAndBuild(c, failAt) ==
  IF Len(c.samples) = 0 THEN [c EXCEPT !.status = "success"]
  ELSE IF failAt \in 1..Len(c.samples) THEN [c EXCEPT !.status = "failure"]
  ELSE [BuildBuckets(ClearNeutral(c), Buckets(c.samples), 0) EXCEPT !.status = "success"]
\* a rebuild that clears dirty_ whatever buildFeatureMatrix returned
Unchecked(c) == [c EXCEPT !.dirty_ = FALSE]
\* CHECK_MSTATUS_AND_RETURN_IT(status); dirty_ = false;
Checked(c) == IF c.status = "failure" THEN c ELSE [c EXCEPT !.dirty_ = FALSE]
\* the rebuild of RBFNode::compute
RebuildCache(c, failAt) ==
  IF IsDirty(c) THEN Checked(ReadAndBuild(c, failAt)) ELSE [c EXCEPT !.status = "success"]

CacheInit ==
  /\ cache \in {NewCache([k \in 1..2 |-> CacheSample(rt[k], k)], outputMode) :
                  rt \in CacheRotationTypes, outputMode \in 0..1}
  /\ KernelIdle /\ SolverIdle /\ LoopIdle /\ NodeIdle /\ IkIdle /\ QuatIdle /\ RigIdle
  /\ RaceIdle /\ TasksIdle

\* the attribute values one edit can give the node, each with its plug
CacheEdits(c) ==
  {<<"aSampleRotationType", [c EXCEPT !.samples[k].rotationType = rt]>> :
     k \in 1..Len(c.samples), rt \in {Swing, Twist}}
  \cup {<<"aSampleRadius", [c EXCEPT !.samples[k].sampleRadius = r]>> :
          k \in 1..Len(c.samples), r \in CacheRadii}
  \cup {<<"aSampleOutputValues", [c EXCEPT !.samples[k].outputValue = 5]>> :
          k \in 1..Len(c.samples)}
  \cup {<<"aSampleOutputQuats", [c EXCEPT !.samples[k].outputQuats = <<X90, X90>>]>> :
          k \in 1..Len(c.samples)}
  \cup {<<"aSampleInputQuats", [c EXCEPT !.samples[k].inputQuats = <<QuatIdentity>>]>> :
          k \in 1..Len(c.samples)}
  \cup {<<"aSamples", [c EXCEPT !.samples = SubSeq(@, 1, Len(@) - 1)]>>}
  \cup {<<"aSampleOutputMode", [c EXCEPT !.outputMode = m]>> : m \in 0..1}
  \cup {<<"aOutputQuatCount", [c EXCEPT !.outputQuatCount = n]>> : n \in 1..2}
  \cup {<<"aInputRestQuats", [c EXCEPT !.inputRestQuats = <<q>>]>> : q \in CacheRestQuats}
  \cup {<<"aRadius", [c EXCEPT !.radius = r]>> : r \in CacheRadii}
  \cup {<<"aRegularization", [c EXCEPT !.regularization = l]>> : l \in {NOne, NInt(2)}}
\* an attribute of the node is set: Maya calls setDependentsDirty on its plug
SetAttribute ==
  /\ cache.edits < MaxCacheEdits
  /\ \E e \in CacheEdits(cache) :
       /\ e[2] # cache
       /\ cache' = [setDependentsDirty(e[2], e[1])
                      EXCEPT !.edits = cache.edits + 1, !.last = "edit", !.plug = e[1]]
  /\ UNCHANGED <<kernelVars, solverVars, loop, node, ik, quat, rig, race, tasks>>
\* RBFNode::compute up to the end of the rebuild; the data block may fail
\* the read of any sample
ComputeCache ==
  /\ \E failAt \in 0..Len(cache.samples) :
       cache' = [RebuildCache(cache, failAt)
                   EXCEPT !.last = "compute", !.before = Members(cache)]
  /\ UNCHANGED <<kernelVars, solverVars, loop, node, ik, quat, rig, race, tasks>>

CacheNext == SetAttribute \/ ComputeCache
SpecCache == CacheInit /\ [][CacheNext]_vars

\* a compute has rebuilt the solvers from the samples, in relative output mode
RebuiltRelative ==
  /\ cache.last = "compute" /\ cache.status = "success" /\ ~cache.dirty_
  /\ cache.outputMode = 1 /\ Len(cache.samples) # 0
\* the samples of bucket i, by index
CacheBucket(i) == Buckets(cache.samples)[i]
\* the first sample of bucket i is stored as zero in every scalar output
FirstStoredZero(i) ==
  \A j \in 1..cache.solvers_[i].outputScalarMatrix_.c :
    cache.solvers_[i].outputScalarMatrix_.v[1][j] = NZero
\* the first sample of bucket i is stored as the identity in rotation slot j
FirstStoredIdentity(i, j) == cache.solvers_[i].outputQuats_[j][1] = QuatIdentity

\* C23: in relative output mode, the first sample of every non-empty bucket
\* is stored as zero in the scalar outputs and as the identity in the
\* rotation outputs.
C23_BucketNeutralIsOwnFirstSample ==
  RebuiltRelative =>
    \A i \in 0..2 :
      Len(CacheBucket(i)) # 0 =>
        /\ FirstStoredZero(i)
        /\ \A j \in 1..cache.outputQuatCount : FirstStoredIdentity(i, j)

\* neutralQuats_[i] * q: the neutral rotation compute composes with the
\* rotation of output slot j (slots from 1)
Reapplied(c, j, q) == QuatMul(c.neutralQuats_[j], q)

\* C30: in relative output mode, neutral[j] composed with the stored
\* rotation of a sample for slot j recovers the authored rotation of that
\* sample for slot j, for every rotation output slot j.
C30_NeutralRecoversEverySlot ==
  RebuiltRelative =>
    \A i \in 0..2, j \in 1..cache.outputQuatCount :
      \A k \in 1..Len(CacheBucket(i)) :
        Reapplied(cache, j, cache.solvers_[i].outputQuats_[j][k])
          = SampleOutputQuats(cache, CacheBucket(i)[k])[j]

\* a compute has rebuilt the solvers from the samples
Rebuilt == cache.last = "compute" /\ cache.status = "success" /\ ~cache.dirty_
\* C27: the kernel radius of the rotation sub-block of sample s is the
\* authored sampleRadius of sample s, in every bucket that setFeatures
\* measured (two samples or more).
C27_SubBlockRadiusIsAuthored ==
  Rebuilt =>
    \A i \in 0..2 :
      ~FewSamples(Len(CacheBucket(i))) =>
        \A k \in 1..Len(CacheBucket(i)) :
          cache.solvers_[i].sampleRadius_[k] = cache.samples[CacheBucket(i)[k]].sampleRadius

\* the last compute returned the error of a failed sample read
ReadFailed == cache.last = "compute" /\ cache.status = "failure"
\* C28: when the read of the samples fails during a rebuild, compute returns
\* the error, the three solvers and the stored neutral values are as they
\* were before the evaluation, and dirty_ stays set.
C28_FailedReadLeavesCache ==
  ReadFailed => Members(cache) = cache.before /\ cache.dirty_
\* a read failed in a rebuild that found solvers and neutral values of an
\* earlier rebuild
C28_Witness ==
  /\ ReadFailed
  /\ cache.before.neutralQuats_ # <<>> /\ cache.before.neutralValues_ # <<>>
  /\ \E i \in 0..2 : cache.before.solvers_[i].theta_ # EmptyMat

\* the members a new node has after its first rebuild from the attribute
\* values of c
FreshMembers(c) ==
  Members(ReadAndBuild([ClearNeutral(c) EXCEPT !.solvers_ = [i \in 0..2 |-> NewSolver]], 0))
\* C29: every input the rebuild reads marks the cache dirty when it changes
\* (dirty_ is set after every edit of the samples, the counts, the kernel
\* parameters, the output mode and the input rest rotations), so that after
\* a successful compute the solvers and neutral values equal those of a
\* fresh build from the current inputs.
C29_CacheEqualsFreshBuild ==
  /\ cache.last = "edit" => cache.dirty_
  /\ Rebuilt => Members(cache) = FreshMembers(cache)

====
